---- MODULE Spec2Model ----
(***************************************************************************)
(* Matchmaking scheduler and slot tracker of lib/matchmaking.py.           *)
(*                                                                         *)
(* The state of a Matchmaking object with its attached MatchmakingSlots is *)
(* carried through the operators as one record (written m), the way the    *)
(* methods carry self.  Time is counted in seconds.  Every Game Service    *)
(* call made during one operation is recorded in the call log m.calls of   *)
(* the record the operation returns, which is what a Mock of li records.   *)
(*                                                                         *)
(* Not part of the state: the user profile and its refresh timer (read     *)
(* only by opponent selection, whose outcome is an input here), and the    *)
(* contents of the acceptance memory before an operation starts (its       *)
(* writes are logged in m.calls.add_challenge_filter, its only reader is   *)
(* opponent selection, which sees the entries the same operation wrote).   *)
(* A tracker is always attached (set_slots right after construction); the  *)
(* tracker of a capacity other than 3 is the disabled one.                  *)
(***************************************************************************)
EXTENDS Integers, Sequences, FiniteSets, TLC

\* ------------------------------------------------------------------ bounds
Ids == {"g1", "g2"}
Usernames == {"other_bot"}
TimeSteps == {60}
MaxElapsed == 61
RateLimitTimeouts == {30}

\* ------------------------------------------------------- program constants
BOT_SHORT_SPEEDS == {"ultraBullet", "bullet", "blitz"}
BOT_LONG_SPEEDS == {"rapid", "classical"}
CORRESPONDENCE_SPEED == "correspondence"
Speeds == BOT_SHORT_SPEEDS \cup BOT_LONG_SPEEDS \cup {CORRESPONDENCE_SPEED}

ChallengeExpiry == 25
min_wait_time == 60
MaxWaitMinutes == 10
DefaultFilterDays == 1
BlockListYears == 10

NoId == ""
NoLanes == {"None"}
BothLanes == {"short", "long"}

seconds(n) == n
minutes(n) == 60 * n
days(n) == 86400 * n
years(n) == 365 * days(n)

\* ------------------------------------------------------------------ Timer
Timer(duration) == [since |-> 0, duration |-> duration]
is_expired(t) == t.since >= t.duration
reset(t) == [t EXCEPT !.since = 0]
time_since_reset(t) == t.since
Min(a, b) == IF a <= b THEN a ELSE b
Max(a, b) == IF a >= b THEN a ELSE b
\* Time passing.  A timer stops counting at cap: the challenge-created timer
\* at MaxElapsed (above its own duration and min_wait_time, below
\* max_wait_time, which the elapsed time therefore never reaches), a timer of
\* which only is_expired is asked at its duration.
Elapse(t, d, cap) == [t EXCEPT !.since = Min(t.since + d, Max(cap, t.since))]

\* ------------------------------------------------------------- dict helpers
Put(d, k, v) == [x \in (DOMAIN d) \cup {k} |-> IF x = k THEN v ELSE d[x]]
Pop(d, k) == [x \in (DOMAIN d) \ {k} |-> d[x]]
Count(d, v) == Cardinality({k \in DOMAIN d : d[k] = v})

\* ------------------------------------------------------ module functions
bot_lane_for_speed(speed) == IF speed \in BOT_SHORT_SPEEDS THEN "short" ELSE "long"

is_correspondence_speed(speed) == speed = CORRESPONDENCE_SPEED

\* A variant whose limits belong to the faster category.
game_category_inclusive(variant, base_time, increment, num_days) ==
  LET game_duration == base_time + increment * 40 IN
  IF variant # "standard" THEN variant
  ELSE IF num_days # 0 THEN "correspondence"
  ELSE IF game_duration <= 179 THEN "bullet"
  ELSE IF game_duration <= 479 THEN "blitz"
  ELSE IF game_duration <= 1499 THEN "rapid"
  ELSE "classical"

game_category(variant, base_time, increment, num_days) ==
  LET game_duration == base_time + increment * 40 IN
  IF variant # "standard" THEN variant
  ELSE IF num_days # 0 THEN "correspondence"
  ELSE IF game_duration < 179 THEN "bullet"
  ELSE IF game_duration < 479 THEN "blitz"
  ELSE IF game_duration < 1499 THEN "rapid"
  ELSE "classical"

\* Python's "x or [None]": an empty list becomes the one-element list [None],
\* and int(None or 0) is 0, so None is written 0 here.
OrNone(list) == IF Len(list) = 0 THEN <<0>> ELSE list

RECURSIVE Concat(_)
Concat(ss) == IF Len(ss) = 0 THEN <<>> ELSE Head(ss) \o Concat(Tail(ss))

\* A variant that ignores the lane restriction.
configured_time_controls_any_lane(match_config, allowed_bot_lanes, include_correspondence) ==
  LET challenge_initial_time == OrNone(match_config.challenge_initial_time)
      challenge_increment == OrNone(match_config.challenge_increment)
      challenge_days == match_config.challenge_days
      realtime(base_time, inc_time) ==
        IF base_time = 0 /\ inc_time = 0 THEN <<>> ELSE << <<base_time, inc_time, 0>> >>
      row(base_time) ==
        Concat([j \in 1..Len(challenge_increment) |-> realtime(base_time, challenge_increment[j])])
      corr(num_days) == IF num_days = 0 THEN <<>> ELSE << <<0, 0, num_days>> >>
  IN Concat([i \in 1..Len(challenge_initial_time) |-> row(challenge_initial_time[i])])
     \o (IF include_correspondence
         THEN Concat([k \in 1..Len(challenge_days) |-> corr(challenge_days[k])])
         ELSE <<>>)

configured_time_controls(match_config, allowed_bot_lanes, include_correspondence) ==
  LET challenge_initial_time == OrNone(match_config.challenge_initial_time)
      challenge_increment == OrNone(match_config.challenge_increment)
      challenge_days == match_config.challenge_days
      realtime(base_time, inc_time) ==
        IF base_time = 0 /\ inc_time = 0 THEN <<>>
        ELSE LET speed == game_category("standard", base_time, inc_time, 0) IN
             IF allowed_bot_lanes = NoLanes \/ bot_lane_for_speed(speed) \in allowed_bot_lanes
             THEN << <<base_time, inc_time, 0>> >> ELSE <<>>
      row(base_time) ==
        Concat([j \in 1..Len(challenge_increment) |-> realtime(base_time, challenge_increment[j])])
      corr(num_days) ==
        IF num_days = 0 THEN <<>>
        ELSE IF allowed_bot_lanes = NoLanes \/ "long" \in allowed_bot_lanes
             THEN << <<0, 0, num_days>> >> ELSE <<>>
  IN Concat([i \in 1..Len(challenge_initial_time) |-> row(challenge_initial_time[i])])
     \o (IF include_correspondence
         THEN Concat([k \in 1..Len(challenge_days) |-> corr(challenge_days[k])])
         ELSE <<>>)

\* -------------------------------------------------------- MatchmakingSlots
MatchmakingSlots(max_games) ==
  [max_games |-> max_games,
   enabled |-> (max_games = 3),
   slot_by_game_id |-> <<>>,
   pending_outgoing_challenges |-> {},
   pending_outgoing_correspondence |-> {}]

_slot_for_game(s, is_bot_game, speed) ==
  IF is_correspondence_speed(speed) THEN CORRESPONDENCE_SPEED
  ELSE IF ~s.enabled THEN "any"
  ELSE IF ~is_bot_game THEN "human"
  ELSE IF bot_lane_for_speed(speed) = "short" THEN "bot_short" ELSE "bot_long"

\* A variant that reserves whether or not accounting is enabled.
reserve_game_unconditional(s, game_id, is_bot_game, speed) ==
  [s EXCEPT !.slot_by_game_id = Put(@, game_id, _slot_for_game(s, is_bot_game, speed)),
            !.pending_outgoing_challenges = @ \ {game_id},
            !.pending_outgoing_correspondence = @ \ {game_id}]

reserve_game(s, game_id, is_bot_game, speed) ==
  IF ~s.enabled THEN s
  ELSE [s EXCEPT !.slot_by_game_id = Put(@, game_id, _slot_for_game(s, is_bot_game, speed)),
                 !.pending_outgoing_challenges = @ \ {game_id},
                 !.pending_outgoing_correspondence = @ \ {game_id}]

reserve_outgoing_challenge(s, challenge_id, speed) ==
  IF ~s.enabled THEN s
  ELSE [s EXCEPT !.slot_by_game_id = Put(@, challenge_id, _slot_for_game(s, TRUE, speed)),
                 !.pending_outgoing_correspondence =
                     IF is_correspondence_speed(speed) THEN @ \cup {challenge_id} ELSE @,
                 !.pending_outgoing_challenges =
                     IF is_correspondence_speed(speed) THEN @ ELSE @ \cup {challenge_id}]

\* A variant that drops the reservation together with the pending flags.
confirm_game_start_releasing(s, game_id) ==
  IF ~s.enabled THEN s
  ELSE [s EXCEPT !.pending_outgoing_challenges = @ \ {game_id},
                 !.pending_outgoing_correspondence = @ \ {game_id},
                 !.slot_by_game_id = Pop(@, game_id)]

confirm_game_start(s, game_id) ==
  IF ~s.enabled THEN s
  ELSE [s EXCEPT !.pending_outgoing_challenges = @ \ {game_id},
                 !.pending_outgoing_correspondence = @ \ {game_id}]

\* A variant that clears the pending flags and keeps the lane.
release_pending_only(s, game_or_challenge_id) ==
  IF ~s.enabled THEN s
  ELSE [s EXCEPT !.pending_outgoing_challenges = @ \ {game_or_challenge_id},
                 !.pending_outgoing_correspondence = @ \ {game_or_challenge_id}]

\* A variant that empties the pending sets instead of discarding one id.
release_clearing_pending(s, game_or_challenge_id) ==
  IF ~s.enabled THEN s
  ELSE [s EXCEPT !.pending_outgoing_challenges = {},
                 !.pending_outgoing_correspondence = {},
                 !.slot_by_game_id = Pop(@, game_or_challenge_id)]

\* A variant that frees the lane and leaves the pending flags.
release_keeping_pending(s, game_or_challenge_id) ==
  IF ~s.enabled THEN s
  ELSE [s EXCEPT !.slot_by_game_id = Pop(@, game_or_challenge_id)]

release(s, game_or_challenge_id) ==
  IF ~s.enabled THEN s
  ELSE [s EXCEPT !.pending_outgoing_challenges = @ \ {game_or_challenge_id},
                 !.pending_outgoing_correspondence = @ \ {game_or_challenge_id},
                 !.slot_by_game_id = Pop(@, game_or_challenge_id)]

has_reservation(s, game_id) ==
  IF ~s.enabled THEN FALSE ELSE game_id \in DOMAIN s.slot_by_game_id

\* A variant that adds every pending outgoing challenge to the active games.
used_slots_double_counting(s, active_games) ==
  IF ~s.enabled THEN Cardinality(active_games)
  ELSE Cardinality(active_games) + Cardinality(s.pending_outgoing_challenges)

used_slots(s, active_games) ==
  IF ~s.enabled THEN Cardinality(active_games)
  ELSE Cardinality(active_games)
       + Cardinality({c \in s.pending_outgoing_challenges : c \notin active_games})

correspondence_reservation_count(s) ==
  IF ~s.enabled THEN 0 ELSE Count(s.slot_by_game_id, CORRESPONDENCE_SPEED)

\* A variant that counts only the reservations that are no longer pending.
_bot_lane_counts_started_only(s) ==
  IF ~s.enabled THEN <<0, 0>>
  ELSE <<Cardinality({k \in DOMAIN s.slot_by_game_id \ s.pending_outgoing_challenges :
                        s.slot_by_game_id[k] = "bot_short"}),
         Cardinality({k \in DOMAIN s.slot_by_game_id \ s.pending_outgoing_challenges :
                        s.slot_by_game_id[k] = "bot_long"})>>

_bot_lane_counts(s) ==
  IF ~s.enabled THEN <<0, 0>>
  ELSE <<Count(s.slot_by_game_id, "bot_short"), Count(s.slot_by_game_id, "bot_long")>>

\* A variant that keeps no slot back: a human is accepted below two games.
can_accept_human_below_two(s, active_games) == used_slots(s, active_games) < 2

can_accept_human(s, active_games) == used_slots(s, active_games) < s.max_games

\* A variant that holds correspondence to the capacity as well.
can_accept_correspondence_within_capacity(s, active_games) ==
  used_slots(s, active_games) < s.max_games

can_accept_correspondence(s, active_games) ==
  IF ~s.enabled THEN used_slots(s, active_games) < s.max_games ELSE TRUE

\* A variant that admits a bot game whenever fewer than two bot lanes are
\* taken, without looking at which lane the speed belongs to.
can_accept_bot_speed_any_lane(s, speed, active_games) ==
  IF is_correspondence_speed(speed) THEN can_accept_correspondence(s, active_games)
  ELSE IF used_slots(s, active_games) >= s.max_games THEN FALSE
  ELSE IF ~s.enabled THEN TRUE
  ELSE _bot_lane_counts(s)[1] + _bot_lane_counts(s)[2] < 2

can_accept_bot_speed(s, speed, active_games) ==
  IF is_correspondence_speed(speed) THEN can_accept_correspondence(s, active_games)
  ELSE IF used_slots(s, active_games) >= s.max_games THEN FALSE
  ELSE IF ~s.enabled THEN TRUE
  ELSE LET short_count == _bot_lane_counts(s)[1]
           long_count == _bot_lane_counts(s)[2]
           lane == bot_lane_for_speed(speed)
       IN IF short_count + long_count >= 2 THEN FALSE
          ELSE (lane = "short" /\ short_count = 0) \/ (lane = "long" /\ long_count = 0)

\* A variant that admits a bot's challenge like a human's.
can_accept_challenge_as_human(s, speed, challenger_is_bot, active_games) ==
  IF is_correspondence_speed(speed) THEN can_accept_correspondence(s, active_games)
  ELSE can_accept_human(s, active_games)

can_accept_challenge(s, speed, challenger_is_bot, active_games) ==
  IF is_correspondence_speed(speed) THEN can_accept_correspondence(s, active_games)
  ELSE IF challenger_is_bot THEN can_accept_bot_speed(s, speed, active_games)
  ELSE can_accept_human(s, active_games)

\* A variant that offers every lane without a reservation.
available_bot_lanes_each_free_lane(s, active_games) ==
  IF used_slots(s, active_games) >= s.max_games THEN {}
  ELSE IF ~s.enabled THEN {"short", "long"}
  ELSE (IF _bot_lane_counts(s)[1] = 0 THEN {"short"} ELSE {})
       \cup (IF _bot_lane_counts(s)[2] = 0 THEN {"long"} ELSE {})

\* A variant that offers lanes only while no bot lane is taken.
available_bot_lanes_while_none_taken(s, active_games) ==
  IF used_slots(s, active_games) >= s.max_games THEN {}
  ELSE IF ~s.enabled THEN {"short", "long"}
  ELSE IF _bot_lane_counts(s)[1] + _bot_lane_counts(s)[2] >= 1 THEN {}
  ELSE {"short", "long"}

available_bot_lanes(s, active_games) ==
  IF used_slots(s, active_games) >= s.max_games THEN {}
  ELSE IF ~s.enabled THEN {"short", "long"}
  ELSE LET short_count == _bot_lane_counts(s)[1]
           long_count == _bot_lane_counts(s)[2]
       IN IF short_count + long_count >= 2 THEN {}
          ELSE (IF short_count = 0 THEN {"short"} ELSE {})
               \cup (IF long_count = 0 THEN {"long"} ELSE {})

\* A variant that looks at the capacity only.
can_start_correspondence_move_on_any_free_slot(s, active_games) ==
  used_slots(s, active_games) < s.max_games

can_start_correspondence_move(s, active_games) ==
  IF used_slots(s, active_games) >= s.max_games THEN FALSE
  ELSE IF ~s.enabled THEN TRUE
  ELSE available_bot_lanes(s, active_games) # {}

\* ------------------------------------------------------------ call log
\* What one operation did, as a Mock would record it: the arguments of each
\* call of li.cancel, li.challenge, choose_opponent, should_create_challenge
\* (with its result), add_challenge_filter and create_matchmaking_challenge, in
\* call order.  The log is part of the value an operation returns; it is not
\* kept in the state.
NoCalls ==
  [cancel |-> <<>>, challenge |-> <<>>, choose_opponent |-> <<>>,
   should_create_challenge |-> <<>>, add_challenge_filter |-> <<>>,
   create_matchmaking_challenge |-> <<>>]

\* ------------------------------------------------------------- Matchmaking
Matchmaking(config, max_background, max_games) ==
  [matchmaking_cfg |-> config,
   last_challenge_created_delay |-> Timer(seconds(ChallengeExpiry)),
   last_game_ended_delay |-> Timer(minutes(config.challenge_timeout)),
   rate_limit_timer |-> Timer(0),
   max_wait_time |-> IF config.allow_during_games THEN minutes(MaxWaitMinutes) ELSE years(10),
   challenge_id |-> NoId,
   force_immediate_challenge |-> FALSE,
   max_background_correspondence_games |-> max_background,
   slots |-> MatchmakingSlots(max_games),
   calls |-> NoCalls]

discard_challenge(m, challenge_id) ==
  IF m.challenge_id = challenge_id THEN [m EXCEPT !.challenge_id = NoId] ELSE m

add_challenge_filter(m, username, game_aspect, timeout) ==
  [m EXCEPT !.calls.add_challenge_filter =
      Append(@, [username |-> username, game_aspect |-> game_aspect,
                 timeout |-> IF timeout = 0 THEN days(DefaultFilterDays) ELSE timeout])]

add_to_block_list(m, username) == add_challenge_filter(m, username, "", years(BlockListYears))

\* A variant that lets an elapsed minimum spacing alone decide.
eligible_whatever_the_cooldowns(matchmaking_enabled, time_has_passed, challenge_expired, min_wait_time_passed) ==
  matchmaking_enabled /\ min_wait_time_passed

\* A variant in which the cooldowns always count and an expired challenge
\* stands in for the minimum spacing.
eligible_expiry_for_spacing(matchmaking_enabled, time_has_passed, challenge_expired, min_wait_time_passed) ==
  matchmaking_enabled /\ time_has_passed /\ (min_wait_time_passed \/ challenge_expired)

\* The value should_create_challenge returns.
eligible(matchmaking_enabled, time_has_passed, challenge_expired, min_wait_time_passed) ==
  matchmaking_enabled /\ (time_has_passed \/ challenge_expired) /\ min_wait_time_passed

\* A variant that takes the minimum spacing as satisfied.
should_create_challenge_without_spacing(m, ignore_postgame_timeout, ignore_min_wait) ==
  LET matchmaking_enabled == m.matchmaking_cfg.allow_matchmaking
      postgame_ok == ignore_postgame_timeout \/ is_expired(m.last_game_ended_delay)
      time_has_passed == is_expired(m.rate_limit_timer) /\ postgame_ok
      challenge_expired == is_expired(m.last_challenge_created_delay) /\ m.challenge_id # NoId
      ret == eligible(matchmaking_enabled, time_has_passed, challenge_expired, TRUE)
      cancelled(challenge_id) ==
        [discard_challenge([m EXCEPT !.calls.cancel = Append(@, challenge_id)], challenge_id)
           EXCEPT !.slots = release(@, challenge_id)]
      return(m1, value) ==
        [m |-> [m1 EXCEPT !.calls.should_create_challenge =
                  Append(@, [ignore_postgame_timeout |-> ignore_postgame_timeout,
                             ignore_min_wait |-> ignore_min_wait, ret |-> value])],
         ret |-> value]
  IN return(IF challenge_expired THEN cancelled(m.challenge_id) ELSE m, ret)

\* A variant that does not look at the rate-limit timer.
should_create_challenge_while_rate_limited(m, ignore_postgame_timeout, ignore_min_wait) ==
  LET matchmaking_enabled == m.matchmaking_cfg.allow_matchmaking
      postgame_ok == ignore_postgame_timeout \/ is_expired(m.last_game_ended_delay)
      time_has_passed == postgame_ok
      challenge_expired == is_expired(m.last_challenge_created_delay) /\ m.challenge_id # NoId
      min_wait_time_passed ==
        ignore_min_wait \/ time_since_reset(m.last_challenge_created_delay) > min_wait_time
      ret == eligible(matchmaking_enabled, time_has_passed, challenge_expired,
                      min_wait_time_passed)
      cancelled(challenge_id) ==
        [discard_challenge([m EXCEPT !.calls.cancel = Append(@, challenge_id)], challenge_id)
           EXCEPT !.slots = release(@, challenge_id)]
      return(m1, value) ==
        [m |-> [m1 EXCEPT !.calls.should_create_challenge =
                  Append(@, [ignore_postgame_timeout |-> ignore_postgame_timeout,
                             ignore_min_wait |-> ignore_min_wait, ret |-> value])],
         ret |-> value]
  IN return(IF challenge_expired THEN cancelled(m.challenge_id) ELSE m, ret)

should_create_challenge(m, ignore_postgame_timeout, ignore_min_wait) ==
  LET matchmaking_enabled == m.matchmaking_cfg.allow_matchmaking
      postgame_ok == ignore_postgame_timeout \/ is_expired(m.last_game_ended_delay)
      time_has_passed == postgame_ok /\ is_expired(m.rate_limit_timer)
      challenge_expired == is_expired(m.last_challenge_created_delay) /\ m.challenge_id # NoId
      min_wait_time_passed ==
        ignore_min_wait \/ time_since_reset(m.last_challenge_created_delay) > min_wait_time
      ret == eligible(matchmaking_enabled, time_has_passed, challenge_expired,
                      min_wait_time_passed)
      cancelled(challenge_id) ==
        [discard_challenge([m EXCEPT !.calls.cancel = Append(@, challenge_id)], challenge_id)
           EXCEPT !.slots = release(@, challenge_id)]
      return(m1, value) ==
        [m |-> [m1 EXCEPT !.calls.should_create_challenge =
                  Append(@, [ignore_postgame_timeout |-> ignore_postgame_timeout,
                             ignore_min_wait |-> ignore_min_wait, ret |-> value])],
         ret |-> value]
  IN return(IF challenge_expired THEN cancelled(m.challenge_id) ELSE m, ret)

\* response: what li.challenge does.  kind "id": a response with an id;
\* "bot_is_rate_limited", "opponent_is_rate_limited", "no_id": a response
\* without id; "RateLimitedError", "Exception": the call raises.
handle_challenge_error_response(m, response, username) ==
  IF response.kind = "bot_is_rate_limited"
  THEN [m EXCEPT !.rate_limit_timer = Timer(response.timeout)]
  ELSE IF response.kind = "opponent_is_rate_limited"
  THEN add_challenge_filter(m, username, "", response.timeout)
  ELSE add_challenge_filter(m, username, "", 0)

\* A variant that sends the challenge without restarting the challenge-created
\* timer.
create_challenge_keeping_timer(m, username, base_time, increment, num_days, variant, mode, response) ==
  LET params == [rated |-> (mode = "rated"), variant |-> variant,
                 days |-> num_days,
                 clock_limit |-> IF num_days # 0 THEN 0 ELSE base_time,
                 clock_increment |-> IF num_days # 0 THEN 0 ELSE increment]
      respond(m1) ==
        IF response.kind = "id" THEN [m |-> m1, id |-> response.id]
        ELSE IF response.kind = "RateLimitedError"
        THEN [m |-> [m1 EXCEPT !.rate_limit_timer = Timer(response.timeout)], id |-> NoId]
        ELSE IF response.kind = "Exception" THEN [m |-> m1, id |-> NoId]
        ELSE [m |-> handle_challenge_error_response(m1, response, username), id |-> NoId]
  IN IF num_days = 0 /\ base_time = 0 /\ increment = 0 THEN [m |-> m, id |-> NoId]
     ELSE respond([m EXCEPT !.calls.challenge =
                               Append(@, [username |-> username, params |-> params])])

\* A variant that swallows the rate-limit error without arming the timer.
create_challenge_unarmed(m, username, base_time, increment, num_days, variant, mode, response) ==
  LET params == [rated |-> (mode = "rated"), variant |-> variant,
                 days |-> num_days,
                 clock_limit |-> IF num_days # 0 THEN 0 ELSE base_time,
                 clock_increment |-> IF num_days # 0 THEN 0 ELSE increment]
      respond(m1) ==
        IF response.kind = "id" THEN [m |-> m1, id |-> response.id]
        ELSE IF response.kind \in {"RateLimitedError", "Exception"} THEN [m |-> m1, id |-> NoId]
        ELSE [m |-> handle_challenge_error_response(m1, response, username), id |-> NoId]
  IN IF num_days = 0 /\ base_time = 0 /\ increment = 0 THEN [m |-> m, id |-> NoId]
     ELSE respond([m EXCEPT !.last_challenge_created_delay = reset(@),
                            !.calls.challenge = Append(@, [username |-> username, params |-> params])])

\* create_challenge from the return of li.challenge on: the id of the
\* response, or the handling of a response without one.
create_challenge_answered(m, username, response) ==
  IF response.kind = "id" THEN [m |-> m, id |-> response.id]
  ELSE IF response.kind = "RateLimitedError"
  THEN [m |-> [m EXCEPT !.rate_limit_timer = Timer(response.timeout)], id |-> NoId]
  ELSE IF response.kind = "Exception" THEN [m |-> m, id |-> NoId]
  ELSE [m |-> handle_challenge_error_response(m, response, username), id |-> NoId]

create_challenge(m, username, base_time, increment, num_days, variant, mode, response) ==
  LET params == [rated |-> (mode = "rated"), variant |-> variant,
                 days |-> num_days,
                 clock_limit |-> IF num_days # 0 THEN 0 ELSE base_time,
                 clock_increment |-> IF num_days # 0 THEN 0 ELSE increment]
  IN IF num_days = 0 /\ base_time = 0 /\ increment = 0 THEN [m |-> m, id |-> NoId]
     ELSE create_challenge_answered(
            [m EXCEPT !.last_challenge_created_delay = reset(@),
                      !.calls.challenge = Append(@, [username |-> username, params |-> params])],
            username, response)

\* online_bots: the candidates; perfs maps the game types a candidate has a
\* rating in to that rating, and a candidate without one counts as rated 0.
\* A variant that shifts the ratings by min_rating - 1 (max_rating + 1).
get_weights_shifted_by_one(online_bots, rating_preference, min_rating, max_rating, game_type) ==
  LET rating(bot) == IF game_type \in DOMAIN bot.perfs THEN bot.perfs[game_type] ELSE 0 IN
  IF rating_preference = "high"
  THEN [i \in 1..Len(online_bots) |-> rating(online_bots[i]) - (min_rating - 1)]
  ELSE IF rating_preference = "low"
  THEN [i \in 1..Len(online_bots) |-> (max_rating + 1) - rating(online_bots[i])]
  ELSE [i \in 1..Len(online_bots) |-> 1]

get_weights(online_bots, rating_preference, min_rating, max_rating, game_type) ==
  LET rating(bot) == IF game_type \in DOMAIN bot.perfs THEN bot.perfs[game_type] ELSE 0 IN
  IF rating_preference = "high"
  THEN LET reduce_ratings_by == Min(min_rating - (max_rating - min_rating), min_rating - 1)
       IN [i \in 1..Len(online_bots) |-> rating(online_bots[i]) - reduce_ratings_by]
  ELSE IF rating_preference = "low"
  THEN LET reduce_ratings_by == Max(max_rating - (min_rating - max_rating), max_rating + 1)
       IN [i \in 1..Len(online_bots) |-> reduce_ratings_by - rating(online_bots[i])]
  ELSE [i \in 1..Len(online_bots) |-> 1]

\* Whether the operation under way has put username in the block list: an
\* entry for the empty game aspect, which no timeout written here lets expire
\* within the operation.
in_block_list(m, username) ==
  \E i \in 1..Len(m.calls.add_challenge_filter) :
    /\ m.calls.add_challenge_filter[i].username = username
    /\ m.calls.add_challenge_filter[i].game_aspect = ""

\* env: what opponent selection draws from its environment.  pick: the index
\* random.choice draws among the candidate time controls; bot: the online bot
\* random.choices draws ("" when no suitable bot is online or a lookup
\* raises); blocking: whether that bot's public profile says it blocks us.
\* A bot in the block list is no candidate, so nothing is drawn in its place.
choose_opponent(m, allowed_bot_lanes, correspondence_only, env) ==
  LET match_config == m.matchmaking_cfg
      variant == match_config.challenge_variant
      mode == match_config.challenge_mode
      bot == IF in_block_list(m, env.bot) THEN "" ELSE env.bot
      blocked == bot # "" /\ env.blocking
      bot_username == IF blocked THEN "" ELSE bot
      kept(control) == IF correspondence_only THEN control[3] > 0 ELSE control[3] = 0
      chosen(m1, control) ==
        [m |-> IF blocked THEN add_to_block_list(m1, bot) ELSE m1,
         opponent |-> <<bot_username, control[1], control[2], control[3], variant, mode>>]
      choose(m1, candidate_time_controls) ==
        IF Len(candidate_time_controls) = 0
        THEN [m |-> m1, opponent |-> <<"", 0, 0, 0, variant, mode>>]
        ELSE chosen(m1, candidate_time_controls[((env.pick - 1) % Len(candidate_time_controls)) + 1])
  IN choose([m EXCEPT !.calls.choose_opponent =
               Append(@, [allowed_bot_lanes |-> allowed_bot_lanes,
                          correspondence_only |-> correspondence_only])],
            SelectSeq(configured_time_controls(match_config, allowed_bot_lanes, correspondence_only),
                      kept))

\* A variant that records the outstanding id without reserving its lane.
create_matchmaking_challenge_unreserved(m, active_games, allowed_bot_lanes, correspondence_only, env, response) ==
  LET reserve(created, challenge_speed) ==
        [m |-> [created.m EXCEPT !.challenge_id = created.id],
         ret |-> created.id # NoId]
      send(m1, o, challenge_speed) ==
        IF o[1] = "" THEN [m |-> m1, ret |-> FALSE]
        ELSE IF ~can_accept_bot_speed(m1.slots, challenge_speed, active_games)
        THEN [m |-> m1, ret |-> FALSE]
        ELSE reserve(create_challenge(m1, o[1], o[2], o[3], o[4], o[5], o[6], response),
                     challenge_speed)
      classify(chosen) ==
        send(chosen.m, chosen.opponent,
             game_category("standard", chosen.opponent[2], chosen.opponent[3], chosen.opponent[4]))
  IN classify(choose_opponent(
       [m EXCEPT !.calls.create_matchmaking_challenge =
          Append(@, [active_games |-> active_games, allowed_bot_lanes |-> allowed_bot_lanes,
                     correspondence_only |-> correspondence_only])],
       allowed_bot_lanes, correspondence_only, env))

\* A variant that sends without asking the tracker again.
create_matchmaking_challenge_unchecked(m, active_games, allowed_bot_lanes, correspondence_only, env, response) ==
  LET reserve(created, challenge_speed) ==
        [m |-> IF created.id # NoId
               THEN [created.m EXCEPT
                       !.challenge_id = created.id,
                       !.slots = reserve_outgoing_challenge(@, created.id, challenge_speed)]
               ELSE [created.m EXCEPT !.challenge_id = created.id],
         ret |-> created.id # NoId]
      send(m1, o, challenge_speed) ==
        IF o[1] = "" THEN [m |-> m1, ret |-> FALSE]
        ELSE reserve(create_challenge(m1, o[1], o[2], o[3], o[4], o[5], o[6], response),
                     challenge_speed)
      classify(chosen) ==
        send(chosen.m, chosen.opponent,
             game_category("standard", chosen.opponent[2], chosen.opponent[3], chosen.opponent[4]))
  IN classify(choose_opponent(
       [m EXCEPT !.calls.create_matchmaking_challenge =
          Append(@, [active_games |-> active_games, allowed_bot_lanes |-> allowed_bot_lanes,
                     correspondence_only |-> correspondence_only])],
       allowed_bot_lanes, correspondence_only, env))

create_matchmaking_challenge(m, active_games, allowed_bot_lanes, correspondence_only, env, response) ==
  LET reserve(created, challenge_speed) ==
        [m |-> IF created.id # NoId
               THEN [created.m EXCEPT
                       !.challenge_id = created.id,
                       !.slots = reserve_outgoing_challenge(@, created.id, challenge_speed)]
               ELSE [created.m EXCEPT !.challenge_id = created.id],
         ret |-> created.id # NoId]
      send(m1, o, challenge_speed) ==
        IF o[1] = "" THEN [m |-> m1, ret |-> FALSE]
        ELSE IF ~can_accept_bot_speed(m1.slots, challenge_speed, active_games)
        THEN [m |-> m1, ret |-> FALSE]
        ELSE reserve(create_challenge(m1, o[1], o[2], o[3], o[4], o[5], o[6], response),
                     challenge_speed)
      classify(chosen) ==
        send(chosen.m, chosen.opponent,
             game_category("standard", chosen.opponent[2], chosen.opponent[3], chosen.opponent[4]))
  IN classify(choose_opponent(
       [m EXCEPT !.calls.create_matchmaking_challenge =
          Append(@, [active_games |-> active_games, allowed_bot_lanes |-> allowed_bot_lanes,
                     correspondence_only |-> correspondence_only])],
       allowed_bot_lanes, correspondence_only, env))

\* A variant that stops only above the target.
_challenge_for_background_correspondence_above_target(m, active_games, env, response) ==
  LET decide(should) ==
        IF ~should.ret THEN [m |-> should.m, ret |-> FALSE]
        ELSE create_matchmaking_challenge(should.m, active_games, NoLanes, TRUE, env, response)
  IN IF ~m.slots.enabled THEN [m |-> m, ret |-> FALSE]
     ELSE IF correspondence_reservation_count(m.slots) > m.max_background_correspondence_games
     THEN [m |-> m, ret |-> FALSE]
     ELSE decide(should_create_challenge([m EXCEPT !.force_immediate_challenge = FALSE],
                                         TRUE, m.force_immediate_challenge))

\* A variant that keeps the force-immediate request when the eligibility
\* check fails.
_challenge_for_background_correspondence_keeping_request(m, active_games, env, response) ==
  LET decide(should) ==
        IF ~should.ret
        THEN [m |-> [should.m EXCEPT !.force_immediate_challenge = m.force_immediate_challenge],
              ret |-> FALSE]
        ELSE create_matchmaking_challenge(should.m, active_games, NoLanes, TRUE, env, response)
  IN IF ~m.slots.enabled THEN [m |-> m, ret |-> FALSE]
     ELSE IF correspondence_reservation_count(m.slots) >= m.max_background_correspondence_games
     THEN [m |-> m, ret |-> FALSE]
     ELSE decide(should_create_challenge([m EXCEPT !.force_immediate_challenge = FALSE],
                                         TRUE, m.force_immediate_challenge))

\* A variant that clears the force-immediate request without using it.
_challenge_for_background_correspondence_unforced(m, active_games, env, response) ==
  LET decide(should) ==
        IF ~should.ret THEN [m |-> should.m, ret |-> FALSE]
        ELSE create_matchmaking_challenge(should.m, active_games, NoLanes, TRUE, env, response)
  IN IF ~m.slots.enabled THEN [m |-> m, ret |-> FALSE]
     ELSE IF correspondence_reservation_count(m.slots) >= m.max_background_correspondence_games
     THEN [m |-> m, ret |-> FALSE]
     ELSE decide(should_create_challenge([m EXCEPT !.force_immediate_challenge = FALSE],
                                         TRUE, FALSE))

_challenge_for_background_correspondence(m, active_games, env, response) ==
  LET decide(should) ==
        IF ~should.ret THEN [m |-> should.m, ret |-> FALSE]
        ELSE create_matchmaking_challenge(should.m, active_games, NoLanes, TRUE, env, response)
  IN IF ~m.slots.enabled THEN [m |-> m, ret |-> FALSE]
     ELSE IF correspondence_reservation_count(m.slots) >= m.max_background_correspondence_games
     THEN [m |-> m, ret |-> FALSE]
     ELSE decide(should_create_challenge([m EXCEPT !.force_immediate_challenge = FALSE],
                                         TRUE, m.force_immediate_challenge))

\* A variant that offers opponent selection both lanes whatever the tracker
\* reported.
challenge_realtime_any_lane(m, active_games, max_games, env, response) ==
  LET game_count == Cardinality(active_games)
      allowed_bot_lanes == available_bot_lanes(m.slots, active_games)
      create(should) ==
        IF ~should.ret THEN should.m
        ELSE create_matchmaking_challenge(should.m, active_games, BothLanes, FALSE,
                                          env, response).m
  IN IF game_count >= (IF m.matchmaking_cfg.allow_during_games
                       THEN max_games ELSE Min(1, max_games))
     THEN m
     ELSE IF allowed_bot_lanes = {} THEN m
     ELSE IF game_count > 0
             /\ time_since_reset(m.last_challenge_created_delay)
                  < (IF m.slots.enabled THEN min_wait_time ELSE m.max_wait_time)
     THEN m
     ELSE create(should_create_challenge(m, FALSE, FALSE))

\* A variant that applies the short spacing whether or not the tracker counts
\* lanes.
challenge_realtime_short_spacing(m, active_games, max_games, env, response) ==
  LET game_count == Cardinality(active_games)
      allowed_bot_lanes == available_bot_lanes(m.slots, active_games)
      create(should) ==
        IF ~should.ret THEN should.m
        ELSE create_matchmaking_challenge(should.m, active_games, allowed_bot_lanes, FALSE,
                                          env, response).m
  IN IF game_count >= (IF m.matchmaking_cfg.allow_during_games
                       THEN max_games ELSE Min(1, max_games))
     THEN m
     ELSE IF allowed_bot_lanes = {} THEN m
     ELSE IF game_count > 0
             /\ time_since_reset(m.last_challenge_created_delay) < min_wait_time
     THEN m
     ELSE create(should_create_challenge(m, FALSE, FALSE))

\* A variant that allows the configured number of games whether or not
\* challenging during games is allowed.
challenge_realtime_during_games(m, active_games, max_games, env, response) ==
  LET game_count == Cardinality(active_games)
      allowed_bot_lanes == available_bot_lanes(m.slots, active_games)
      create(should) ==
        IF ~should.ret THEN should.m
        ELSE create_matchmaking_challenge(should.m, active_games, allowed_bot_lanes, FALSE,
                                          env, response).m
  IN IF game_count >= max_games THEN m
     ELSE IF allowed_bot_lanes = {} THEN m
     ELSE IF game_count > 0
             /\ time_since_reset(m.last_challenge_created_delay)
                  < (IF m.slots.enabled THEN min_wait_time ELSE m.max_wait_time)
     THEN m
     ELSE create(should_create_challenge(m, FALSE, FALSE))

\* challenge() from the point where background replenishment created nothing.
challenge_realtime(m, active_games, max_games, env, response) ==
  LET game_count == Cardinality(active_games)
      allowed_bot_lanes == available_bot_lanes(m.slots, active_games)
      create(should) ==
        IF ~should.ret THEN should.m
        ELSE create_matchmaking_challenge(should.m, active_games, allowed_bot_lanes, FALSE,
                                          env, response).m
  IN IF game_count >= (IF m.matchmaking_cfg.allow_during_games
                       THEN max_games ELSE Min(1, max_games))
     THEN m
     ELSE IF allowed_bot_lanes = {} THEN m
     ELSE IF game_count > 0
             /\ time_since_reset(m.last_challenge_created_delay)
                  < (IF m.slots.enabled THEN min_wait_time ELSE m.max_wait_time)
     THEN m
     ELSE create(should_create_challenge(m, FALSE, FALSE))

\* A variant that goes on while incoming challenges are queued.
challenge_whatever_the_queue(m, active_games, challenge_queue, max_games, env_corr, response_corr, env, response) ==
  LET continue(background) ==
        IF background.ret THEN background.m
        ELSE challenge_realtime(background.m, active_games, max_games, env, response)
  IN continue(_challenge_for_background_correspondence(m, active_games, env_corr, response_corr))

challenge(m, active_games, challenge_queue, max_games, env_corr, response_corr, env, response) ==
  LET continue(background) ==
        IF background.ret THEN background.m
        ELSE challenge_realtime(background.m, active_games, max_games, env, response)
  IN IF challenge_queue THEN m
     ELSE continue(_challenge_for_background_correspondence(m, active_games, env_corr, response_corr))

game_done(m) == [m EXCEPT !.last_game_ended_delay = reset(@)]

correspondence_game_done(m) == [m EXCEPT !.force_immediate_challenge = TRUE]

\* A variant that confirms the reservation and keeps the outstanding id.
accepted_challenge_keeping_id(m, game_id) ==
  [m EXCEPT !.slots = confirm_game_start(@, game_id)]

accepted_challenge(m, game_id) ==
  [discard_challenge(m, game_id) EXCEPT !.slots = confirm_game_start(@, game_id)]

\* A variant without the timecontrol reason.
DeclineDetails_without_timecontrol(chal, mode) ==
  [generic |-> "", later |-> "", nobot |-> "",
   toofast |-> chal.speed, tooslow |-> chal.speed,
   rated |-> mode, casual |-> mode,
   standard |-> chal.variant, variant |-> chal.variant]

DeclineDetails(chal, mode) ==
  [generic |-> "", later |-> "", nobot |-> "",
   toofast |-> chal.speed, tooslow |-> chal.speed, timecontrol |-> chal.speed,
   rated |-> mode, casual |-> mode,
   standard |-> chal.variant, variant |-> chal.variant]

\* A variant that releases the reservation whoever sent the challenge.
declined_challenge_releasing_any(m, chal, reason_key) ==
  LET opponent == chal.challenge_target
      mode == IF chal.rated THEN "rated" ELSE "casual"
      decline_details == DeclineDetails(chal, mode)
      game_problem ==
        IF m.matchmaking_cfg.challenge_filter = "fine" /\ reason_key \in DOMAIN decline_details
        THEN decline_details[reason_key] ELSE ""
      record(m2) ==
        IF ~chal.from_self \/ m.matchmaking_cfg.challenge_filter = "none" THEN m2
        ELSE add_challenge_filter(m2, opponent, game_problem, 0)
      free(m1) == [m1 EXCEPT !.slots = release(@, chal.id)]
  IN record(free(discard_challenge(m, chal.id)))

\* chal: the declined challenge (id, from_self, speed, rated, variant,
\* challenge_target); reason_key: event["challenge"]["declineReasonKey"].lower().
declined_challenge(m, chal, reason_key) ==
  LET opponent == chal.challenge_target
      mode == IF chal.rated THEN "rated" ELSE "casual"
      decline_details == DeclineDetails(chal, mode)
      game_problem ==
        IF m.matchmaking_cfg.challenge_filter = "fine" /\ reason_key \in DOMAIN decline_details
        THEN decline_details[reason_key] ELSE ""
      record(m2) ==
        IF ~chal.from_self \/ m.matchmaking_cfg.challenge_filter = "none" THEN m2
        ELSE add_challenge_filter(m2, opponent, game_problem, 0)
      free(m1) == IF chal.from_self THEN [m1 EXCEPT !.slots = release(@, chal.id)] ELSE m1
  IN record(free(discard_challenge(m, chal.id)))

\* ---------------------------------------------------------- configuration
\* The matchmaking section of the configuration used by the tests of
\* challenge(): two real-time controls (one per bot lane) and one
\* correspondence control.
Config(allow_matchmaking, allow_during_games, challenge_filter) ==
  [allow_matchmaking |-> allow_matchmaking,
   allow_during_games |-> allow_during_games,
   challenge_timeout |-> 1,
   challenge_filter |-> challenge_filter,
   challenge_initial_time |-> <<60, 600>>,
   challenge_increment |-> <<0>>,
   challenge_days |-> <<1>>,
   challenge_variant |-> "standard",
   challenge_mode |-> "rated"]

\* The configurations explored: <<allow_matchmaking, allow_during_games,
\* max_background_correspondence_games>>.
Configurations ==
  {<<TRUE, TRUE, 1>>, <<TRUE, FALSE, 2>>, <<TRUE, TRUE, 0>>, <<FALSE, TRUE, 1>>}
Capacity == 3
DisabledCapacities == {2}
MaxPick == 2
\* The largest capacity a tracker is built with, and the largest max_games
\* passed to challenge().
MaxCapacity == 4

Envs ==
  {e \in [pick : 1..MaxPick, bot : Usernames \cup {""}, blocking : BOOLEAN] :
     e.bot = "" => ~e.blocking}
DefaultEnv == [pick |-> 1, bot |-> "", blocking |-> FALSE]
OpponentFound == {e \in Envs : e.bot # "" /\ ~e.blocking}

Responses(fresh) ==
  {[kind |-> "id", id |-> i, timeout |-> 0] : i \in fresh}
  \cup {[kind |-> k, id |-> NoId, timeout |-> t] :
          k \in {"bot_is_rate_limited", "opponent_is_rate_limited", "RateLimitedError"},
          t \in RateLimitTimeouts}
  \cup {[kind |-> k, id |-> NoId, timeout |-> 0] : k \in {"no_id", "Exception"}}
DefaultResponse == [kind |-> "Exception", id |-> NoId, timeout |-> 0]

ReasonKeys == {"generic", "toofast"}
ReservedSpeeds == {"bullet", "rapid", "correspondence"}
DeclinedSpeeds == {"bullet"}

\* ------------------------------------------------------------------ state
\* No module-level function was called yet.
NoCall == [fn |-> "none", returned |-> FALSE]
\* Neither worker of the host is inside an operation and no game is active.
Idle == [at |-> "idle", id |-> NoId, is_bot |-> TRUE, speed |-> ""]
NoRun == [active_games |-> {}, accepting |-> Idle, creating |-> Idle, game_count |-> 0, lanes |-> {}, eligible |-> FALSE, env |-> DefaultEnv, opponent |-> <<>>, accepted |-> {}]

VARIABLES
  matchmaking_cfg,                       \* Matchmaking.matchmaking_cfg
  max_background_correspondence_games,   \* Matchmaking.max_background_correspondence_games
  last_challenge_created_delay,          \* Timer(seconds(25))
  last_game_ended_delay,                 \* Timer(minutes(challenge_timeout))
  rate_limit_timer,                      \* Timer()
  challenge_id,                          \* the outstanding challenge, "" for none
  force_immediate_challenge,             \* one-shot flag
  slots,                                 \* the attached MatchmakingSlots
  call,                                  \* the last call of a module-level function
  host                                   \* a host with two workers: its active games and each worker's step

vars == <<matchmaking_cfg, max_background_correspondence_games, last_challenge_created_delay,
          last_game_ended_delay, rate_limit_timer, challenge_id, force_immediate_challenge,
          slots, call, host>>

\* The Matchmaking object at the start of an operation (empty call log).
Self ==
  [matchmaking_cfg |-> matchmaking_cfg,
   last_challenge_created_delay |-> last_challenge_created_delay,
   last_game_ended_delay |-> last_game_ended_delay,
   rate_limit_timer |-> rate_limit_timer,
   max_wait_time |-> IF matchmaking_cfg.allow_during_games THEN minutes(MaxWaitMinutes) ELSE years(10),
   challenge_id |-> challenge_id,
   force_immediate_challenge |-> force_immediate_challenge,
   max_background_correspondence_games |-> max_background_correspondence_games,
   slots |-> slots,
   calls |-> NoCalls]

Assign(m) ==
  /\ matchmaking_cfg' = m.matchmaking_cfg
  /\ max_background_correspondence_games' = m.max_background_correspondence_games
  /\ last_challenge_created_delay' = m.last_challenge_created_delay
  /\ last_game_ended_delay' = m.last_game_ended_delay
  /\ rate_limit_timer' = m.rate_limit_timer
  /\ challenge_id' = m.challenge_id
  /\ force_immediate_challenge' = m.force_immediate_challenge
  /\ slots' = m.slots
  /\ call' = call

Commit(m) == Assign(m) /\ host' = host

\* Matchmaking(li, config, user_profile) followed by set_slots(MatchmakingSlots(max_games)).
InitWith(configurations, capacities, calls) ==
  \E c \in configurations, max_games \in capacities :
    LET m == Matchmaking(Config(c[1], c[2], "fine"), c[3], max_games) IN
    /\ matchmaking_cfg = m.matchmaking_cfg
    /\ max_background_correspondence_games = m.max_background_correspondence_games
    /\ last_challenge_created_delay = m.last_challenge_created_delay
    /\ last_game_ended_delay = m.last_game_ended_delay
    /\ rate_limit_timer = m.rate_limit_timer
    /\ challenge_id = m.challenge_id
    /\ force_immediate_challenge = m.force_immediate_challenge
    /\ slots = m.slots
    /\ call \in calls
    /\ host = NoRun

Init ==
  \/ InitWith(Configurations, {Capacity}, {NoCall})
  \/ InitWith({<<TRUE, TRUE, 1>>}, DisabledCapacities, {NoCall})

\* Ids are interchangeable, so a new challenge or game gets the first id in
\* IdOrder that is in use nowhere (none when all are in use).
IdOrder == <<"g1", "g2">>
UnusedIds(active_games) == Ids \ (DOMAIN slots.slot_by_game_id \cup {challenge_id} \cup active_games)
FirstOf(unused) ==
  IF unused = {} THEN {}
  ELSE {IdOrder[CHOOSE i \in 1..Len(IdOrder) :
                  /\ IdOrder[i] \in unused
                  /\ \A j \in 1..(i - 1) : IdOrder[j] \notin unused]}

\* The games in progress the tracker knows: reservations no longer pending.
Started(s) ==
  DOMAIN s.slot_by_game_id
    \ (s.pending_outgoing_challenges \cup s.pending_outgoing_correspondence)

\* An id in use nowhere, which the Game Service may give a new challenge.
NewId == "g3"

\* A game in progress that was never reserved (one already running when the
\* tracker was attached).
Untracked == "g0"

\* The id of a challenge this bot sent that has not led to a game: a
\* declined-challenge event carries from_self for it, and for no game that
\* started.
Outgoing(id) ==
  \/ id = challenge_id
  \/ id \in slots.pending_outgoing_challenges \cup slots.pending_outgoing_correspondence

\* What the host may pass as its set of games in progress.
ActiveGames == {{}, Started(slots), Started(slots) \cup {Untracked}}

\* Every result of challenge(active_games, challenge_queue, max_games) on m:
\* one per choice of the environment of opponent selection and of the Game
\* Service's response on the background path (env_corr, response_corr) and on
\* the real-time path (env, response).  An input that no call reads stays at
\* its default; fresh holds the ids the Game Service may give a new challenge.
OutcomesWith(m, active_games, challenge_queue, max_games, fresh) ==
  LET run(ec, rc, e, r) ==
        challenge(m, active_games, challenge_queue, max_games, ec, rc, e, r)
      chose(made, corr) ==
        \E i \in 1..Len(made.choose_opponent) : made.choose_opponent[i].correspondence_only = corr
      sent(made, corr) ==
        \E i \in 1..Len(made.challenge) : (made.challenge[i].params.days # 0) = corr
      EC == IF chose(run(DefaultEnv, DefaultResponse, DefaultEnv, DefaultResponse).calls, TRUE)
            THEN {e \in Envs : e.pick = 1} ELSE {DefaultEnv}
      RC(ec) == IF sent(run(ec, DefaultResponse, DefaultEnv, DefaultResponse).calls, TRUE)
                THEN Responses(fresh) ELSE {DefaultResponse}
      E(ec, rc) == IF chose(run(ec, rc, DefaultEnv, DefaultResponse).calls, FALSE)
                   THEN Envs ELSE {DefaultEnv}
      R(ec, rc, e) == IF sent(run(ec, rc, e, DefaultResponse).calls, FALSE)
                      THEN Responses(fresh \ {rc.id}) ELSE {DefaultResponse}
  IN UNION {UNION {UNION {{run(ec, rc, e, r) : r \in R(ec, rc, e)} : e \in E(ec, rc)}
                     : rc \in RC(ec)} : ec \in EC}

\* The host passes the capacity its tracker was built with.
Outcomes(m, active_games, challenge_queue, fresh) ==
  OutcomesWith(m, active_games, challenge_queue, m.slots.max_games, fresh)

\* ---------------------------------------------------------------- actions
\* Time passes.
Tick ==
  \E d \in TimeSteps :
    LET m == Self IN
    Commit([m EXCEPT
      !.last_challenge_created_delay = Elapse(@, d, MaxElapsed),
      !.last_game_ended_delay = Elapse(@, d, @.duration),
      !.rate_limit_timer = Elapse(@, d, @.duration)])

\* One call of challenge(active_games, challenge_queue, max_games) on the
\* current state, with every choice of its environment.
Challenge ==
  \E active_games \in ActiveGames, challenge_queue \in BOOLEAN :
    \E m \in Outcomes(Self, active_games, challenge_queue, FirstOf(UnusedIds(active_games))) :
      Commit(m)

\* A direct call of should_create_challenge.
ShouldCreateChallenge ==
  \E ignore_postgame_timeout \in BOOLEAN, ignore_min_wait \in BOOLEAN :
    Commit(should_create_challenge(Self,
                                   ignore_postgame_timeout, ignore_min_wait).m)

GameDone == Commit(game_done(Self))

CorrespondenceGameDone == Commit(correspondence_game_done(Self))

AcceptedChallenge ==
  \E game_id \in Ids : Commit(accepted_challenge(Self, game_id))

DeclinedChallenge ==
  \E id \in Ids, from_self \in BOOLEAN, speed \in DeclinedSpeeds, rated \in {TRUE},
     target \in Usernames, reason_key \in {"generic"} :
    /\ Outgoing(id) => from_self
    /\ from_self => id \notin Started(slots)
    /\ Commit(declined_challenge(Self,
                                 [id |-> id, from_self |-> from_self, speed |-> speed,
                                  rated |-> rated, variant |-> "standard",
                                  challenge_target |-> target],
                                 reason_key))

\* The host accepts an incoming challenge: it calls reserve_game only after
\* can_accept_challenge held for its set of active games.
ReserveGame ==
  \E game_id \in FirstOf(UnusedIds({})), is_bot_game \in BOOLEAN, speed \in ReservedSpeeds :
    /\ \E active_games \in SUBSET Ids : can_accept_challenge(slots, speed, is_bot_game, active_games)
    /\ LET m == Self IN
       Commit([m EXCEPT !.slots = reserve_game(@, game_id, is_bot_game, speed)])

\* The host releases the reservation of a game that ended.
Release ==
  \E game_id \in Started(slots) :
    LET m == Self IN
    Commit([m EXCEPT !.slots = release(@, game_id)])

Next ==
  \/ Tick
  \/ Challenge
  \/ ShouldCreateChallenge
  \/ GameDone
  \/ CorrespondenceGameDone
  \/ AcceptedChallenge
  \/ DeclinedChallenge
  \/ ReserveGame
  \/ Release

Spec == Init /\ [][Next]_vars

\* ------------------------------------------------- the tracker on its own
\* MatchmakingSlots(max_games), for every capacity in TrackerCapacities, under
\* every sequence of reserve_game,
\* reserve_outgoing_challenge, confirm_game_start and release calls, with
\* nothing checked before a call.
TrackerIds == Ids \cup {NewId}
TrackerSpeeds == ReservedSpeeds \cup {"blitz"}

SetSlots(s) ==
  /\ slots' = s
  /\ UNCHANGED <<matchmaking_cfg, max_background_correspondence_games,
                 last_challenge_created_delay, last_game_ended_delay, rate_limit_timer,
                 challenge_id, force_immediate_challenge, call, host>>

SlotsReserveGame ==
  \E game_id \in TrackerIds, is_bot_game \in BOOLEAN, speed \in TrackerSpeeds :
    SetSlots(reserve_game(slots, game_id, is_bot_game, speed))

SlotsReserveOutgoingChallenge ==
  \E id \in TrackerIds, speed \in TrackerSpeeds :
    SetSlots(reserve_outgoing_challenge(slots, id, speed))

SlotsConfirmGameStart ==
  \E game_id \in TrackerIds : SetSlots(confirm_game_start(slots, game_id))

SlotsRelease ==
  \E id \in TrackerIds : SetSlots(release(slots, id))

SlotsNext ==
  \/ SlotsReserveGame
  \/ SlotsReserveOutgoingChallenge
  \/ SlotsConfirmGameStart
  \/ SlotsRelease

TrackerCapacities == 0..MaxCapacity

SpecSlots == InitWith({<<TRUE, TRUE, 1>>}, TrackerCapacities, {NoCall}) /\ [][SlotsNext]_vars

\* ------------------------------------------ the module's pure functions
\* A behaviour starts with the arguments of one call, drawn from the sets
\* below, and its one step applies the function: call keeps the arguments and,
\* once returned, the value.
Returned(c, value) == [c EXCEPT !.returned = TRUE] @@ [ret |-> value]

Variants == {"standard", "atomic"}
BaseTimes == {0, 60, 138, 139, 178, 179, 180, 478, 479, 1498, 1499, 1800}
IncrementTimes == {0, 1, 2}
DayCounts == {0, 1, 14}
GameCategoryCalls ==
  [fn : {"game_category"}, returned : {FALSE}, variant : Variants, base_time : BaseTimes, increment : IncrementTimes, num_days : DayCounts]

GameCategory ==
  /\ call.fn = "game_category" /\ ~call.returned
  /\ call' = Returned(call, game_category(call.variant, call.base_time, call.increment, call.num_days))
  /\ UNCHANGED <<matchmaking_cfg, max_background_correspondence_games,
                 last_challenge_created_delay, last_game_ended_delay, rate_limit_timer,
                 challenge_id, force_immediate_challenge, slots, host>>

InitialTimeLists == {<<>>, <<60, 600>>, <<180, 300>>, <<0, 60>>}
IncrementLists == {<<>>, <<0>>, <<2, 0>>}
DayLists == {<<>>, <<1>>, <<0, 2>>}
LaneSets == {NoLanes, {"short"}, {"long"}, BothLanes, {}}
MatchConfigs ==
  [challenge_initial_time : InitialTimeLists, challenge_increment : IncrementLists, challenge_days : DayLists]
ConfiguredTimeControlsCalls ==
  [fn : {"configured_time_controls"}, returned : {FALSE}, match_config : MatchConfigs, allowed_bot_lanes : LaneSets, include_correspondence : BOOLEAN]

ConfiguredTimeControls ==
  /\ call.fn = "configured_time_controls" /\ ~call.returned
  /\ call' = Returned(call, configured_time_controls(call.match_config, call.allowed_bot_lanes, call.include_correspondence))
  /\ UNCHANGED <<matchmaking_cfg, max_background_correspondence_games,
                 last_challenge_created_delay, last_game_ended_delay, rate_limit_timer,
                 challenge_id, force_immediate_challenge, slots, host>>

\* The rating windows are taken around LowestRating, up to MaxSpread wide; a
\* candidate's perfs give its rating in the game type asked for, in another
\* game type, or in none.
LowestRating == 1500
MaxSpread == 3
MaxBots == 3
RatingWindows ==
  {w \in [min_rating : LowestRating..(LowestRating + 1), max_rating : LowestRating..(LowestRating + MaxSpread)] : w.min_rating <= w.max_rating}
RatingPreferences == {"high", "low", "none"}
Perfs ==
  {[g \in {"blitz"} |-> r] : r \in LowestRating..(LowestRating + MaxSpread)}
  \cup {[g \in {"bullet"} |-> LowestRating], <<>>}
OnlineBots == UNION {[1..n -> [perfs : Perfs]] : n \in 0..MaxBots}
GetWeightsCalls ==
  {[fn |-> "get_weights", returned |-> FALSE, online_bots |-> online_bots, rating_preference |-> rating_preference, min_rating |-> w.min_rating, max_rating |-> w.max_rating, game_type |-> "blitz"] :
     online_bots \in OnlineBots, rating_preference \in RatingPreferences, w \in RatingWindows}

GetWeights ==
  /\ call.fn = "get_weights" /\ ~call.returned
  /\ call' = Returned(call, get_weights(call.online_bots, call.rating_preference, call.min_rating, call.max_rating, call.game_type))
  /\ UNCHANGED <<matchmaking_cfg, max_background_correspondence_games,
                 last_challenge_created_delay, last_game_ended_delay, rate_limit_timer,
                 challenge_id, force_immediate_challenge, slots, host>>

FunctionsNext ==
  \/ GameCategory
  \/ ConfiguredTimeControls
  \/ GetWeights

FunctionCalls == GameCategoryCalls \cup ConfiguredTimeControlsCalls \cup GetWeightsCalls

SpecFunctions ==
  InitWith({<<TRUE, TRUE, 1>>}, {Capacity}, FunctionCalls) /\ [][FunctionsNext]_vars

\* ------------------------------------------------- two workers of the host
\* One worker accepts incoming challenges (can_accept_challenge, then
\* reserve_game and the game becomes active), the other runs challenge()
\* with an empty challenge queue.  A step of a worker holds at most one call
\* of the tracker and ends where the worker waits for the Game Service
\* (li.cancel, li.get_profile, li.get_online_bots, li.get_public_data,
\* li.challenge); what challenge() has read so far stays in host (game_count,
\* lanes, eligible, env, opponent).  The steps of the two workers interleave
\* with each other, with time passing, with game_done and with the event of
\* the opponent accepting a challenge, which is handled whenever it arrives,
\* also while the creation of that challenge has not returned.  host.accepted
\* holds the outgoing challenges whose accepted event has been handled.  The
\* background correspondence target is 0, so the background path of
\* challenge() returns at its comparison with the target.
IncomingSpeeds == {"bullet", "rapid"}

AcceptCheck ==
  /\ host.accepting.at = "idle"
  /\ \E id \in FirstOf(Ids \ (DOMAIN slots.slot_by_game_id \cup host.active_games)), challenger_is_bot \in BOOLEAN, speed \in IncomingSpeeds :
       /\ can_accept_challenge(slots, speed, challenger_is_bot, host.active_games)
       /\ host' = [host EXCEPT !.accepting = [at |-> "reserve", id |-> id, is_bot |-> challenger_is_bot, speed |-> speed]]
  /\ Assign(Self)

AcceptReserve ==
  /\ host.accepting.at = "reserve"
  /\ LET m == Self IN
     Assign([m EXCEPT !.slots = reserve_game(@, host.accepting.id, host.accepting.is_bot, host.accepting.speed)])
  /\ host' = [host EXCEPT !.active_games = @ \cup {host.accepting.id}, !.accepting = Idle]

\* challenge() up to the max-games cap: the background correspondence path,
\* then game_count is read and compared with max_games_for_matchmaking.  At
\* the cap challenge() returns.
CreateStart ==
  /\ host.creating.at = "idle"
  /\ LET background == _challenge_for_background_correspondence(Self, host.active_games, DefaultEnv, DefaultResponse)
         game_count == Cardinality(host.active_games)
         max_games_for_matchmaking ==
           IF matchmaking_cfg.allow_during_games THEN slots.max_games ELSE Min(1, slots.max_games)
     IN /\ Assign([background.m EXCEPT !.calls = NoCalls])
        /\ host' = IF background.ret \/ game_count >= max_games_for_matchmaking
                   THEN host
                   ELSE [host EXCEPT !.creating = [@ EXCEPT !.at = "lanes"],
                                     !.game_count = game_count]

\* challenge() reads the lanes the tracker offers; with none it returns.
CreateLanes ==
  /\ host.creating.at = "lanes"
  /\ host' = IF available_bot_lanes(slots, host.active_games) = {}
             THEN [host EXCEPT !.creating = Idle, !.game_count = 0]
             ELSE [host EXCEPT !.creating = [@ EXCEPT !.at = "eligible"],
                               !.lanes = available_bot_lanes(slots, host.active_games)]
  /\ Assign(Self)

\* The spacing between challenges while a game is in progress, then
\* should_create_challenge up to its call of li.cancel: the timers and
\* challenge_id are read and the answer is computed.  With an expired
\* challenge outstanding the worker waits for the Game Service to cancel it.
CreateEligible ==
  /\ host.creating.at = "eligible"
  /\ LET m == Self
         cooldown == IF slots.enabled THEN min_wait_time ELSE m.max_wait_time
         spaced == ~(host.game_count > 0 /\ time_since_reset(last_challenge_created_delay) < cooldown)
         challenge_expired == is_expired(last_challenge_created_delay) /\ challenge_id # NoId
         should == should_create_challenge(m, FALSE, FALSE).ret
     IN host' = IF ~spaced
                THEN [host EXCEPT !.creating = Idle, !.game_count = 0, !.lanes = {}]
                ELSE IF challenge_expired
                THEN [host EXCEPT !.creating = [@ EXCEPT !.at = "cancel", !.id = challenge_id],
                                  !.game_count = 0, !.eligible = should]
                ELSE IF should
                THEN [host EXCEPT !.creating = [@ EXCEPT !.at = "profile"], !.game_count = 0]
                ELSE [host EXCEPT !.creating = Idle, !.game_count = 0, !.lanes = {}]
  /\ Assign(Self)

\* li.cancel returns: the cancelled challenge is discarded and its
\* reservation released, and should_create_challenge returns its answer.
CreateCancelled ==
  /\ host.creating.at = "cancel"
  /\ Assign([discard_challenge(Self, host.creating.id) EXCEPT !.slots = release(@, host.creating.id)])
  /\ host' = IF host.eligible
             THEN [host EXCEPT !.creating = [@ EXCEPT !.at = "profile", !.id = NoId], !.eligible = FALSE]
             ELSE [host EXCEPT !.creating = Idle, !.lanes = {}, !.eligible = FALSE]

\* create_matchmaking_challenge refreshes the profile: li.get_profile
\* returns and choose_opponent asks for the online bots.
CreateProfile ==
  /\ host.creating.at = "profile"
  /\ host' = [host EXCEPT !.creating = [@ EXCEPT !.at = "online_bots"]]
  /\ Assign(Self)

\* li.get_online_bots returns: a time control within the lanes read and a
\* candidate are drawn and the candidate's public data is asked for.  With
\* no candidate choose_opponent has no opponent and
\* create_matchmaking_challenge returns.
CreateOnlineBots ==
  /\ host.creating.at = "online_bots"
  /\ \E env \in OpponentFound \cup {DefaultEnv} :
       host' = IF choose_opponent(Self, host.lanes, FALSE, env).opponent[1] = ""
               THEN [host EXCEPT !.creating = Idle, !.lanes = {}]
               ELSE [host EXCEPT !.creating = [@ EXCEPT !.at = "public_data"], !.env = env]
  /\ Assign(Self)

\* li.get_public_data returns: a candidate that blocks the bot is
\* block-listed and leaves no opponent, otherwise the opponent and the speed
\* of the time control are known.
CreateSelect ==
  /\ host.creating.at = "public_data"
  /\ \E blocking \in BOOLEAN :
       LET o == choose_opponent(Self, host.lanes, FALSE, [host.env EXCEPT !.blocking = blocking]).opponent
           challenge_speed == game_category("standard", o[2], o[3], o[4])
       IN host' = IF o[1] = ""
                  THEN [host EXCEPT !.creating = Idle, !.lanes = {}, !.env = DefaultEnv]
                  ELSE [host EXCEPT !.creating = [@ EXCEPT !.at = "check", !.speed = challenge_speed],
                                    !.lanes = {},
                                    !.env = DefaultEnv,
                                    !.opponent = o]
  /\ Assign(Self)

\* The re-check of the chosen speed on the tracker as it is now; when it
\* refuses, create_matchmaking_challenge returns and nothing is sent.
CreateCheck ==
  /\ host.creating.at = "check"
  /\ host' = IF can_accept_bot_speed(slots, host.creating.speed, host.active_games)
             THEN [host EXCEPT !.creating = [@ EXCEPT !.at = "send"]]
             ELSE [host EXCEPT !.creating = Idle, !.opponent = <<>>]
  /\ Assign(Self)

\* The send: create_challenge resets the challenge-created timer and calls
\* li.challenge; the Game Service creates the challenge (or refuses) and the
\* worker waits for the answer.  A challenge the Game Service creates has an
\* id that is in use nowhere.
CreateSend ==
  /\ host.creating.at = "send"
  /\ \E response \in {r \in Responses({NewId} \ (DOMAIN slots.slot_by_game_id \cup host.active_games \cup {challenge_id})) : r.kind \in {"id", "no_id"}} :
       /\ LET m == Self IN Assign([m EXCEPT !.last_challenge_created_delay = reset(@)])
       /\ host' = [host EXCEPT !.creating = [@ EXCEPT !.at = "answer", !.id = response.id],
                               !.accepted = @ \ {response.id}]

\* li.challenge returns: the rest of create_challenge and the assignment of
\* challenge_id.
CreateAnswer ==
  /\ host.creating.at = "answer"
  /\ LET response == [kind |-> IF host.creating.id # NoId THEN "id" ELSE "no_id",
                      id |-> host.creating.id, timeout |-> 0]
         created == create_challenge_answered(Self, host.opponent[1], response)
     IN /\ Assign([created.m EXCEPT !.challenge_id = created.id, !.calls = NoCalls])
        /\ host' = [host EXCEPT !.creating = IF created.id # NoId
                                             THEN [@ EXCEPT !.at = "reserve"]
                                             ELSE Idle,
                                !.opponent = <<>>]

CreateReserve ==
  /\ host.creating.at = "reserve"
  /\ LET m == Self IN
     Assign([m EXCEPT !.slots = reserve_outgoing_challenge(@, host.creating.id, host.creating.speed)])
  /\ host' = [host EXCEPT !.creating = Idle]

\* The challenges the Game Service holds for the opponent to accept: the
\* outstanding one and the one whose creation has not returned or is not
\* reserved yet.
Acceptable ==
  ({challenge_id}
   \cup (IF host.creating.at \in {"answer", "reserve"} THEN {host.creating.id} ELSE {}))
  \ ({NoId} \cup host.accepted)

\* The opponent accepts a challenge, the game becomes active and
\* accepted_challenge handles the event.
OutgoingAccepted ==
  \E game_id \in Acceptable :
    /\ Assign([accepted_challenge(Self, game_id) EXCEPT !.calls = NoCalls])
    /\ host' = [host EXCEPT !.active_games = @ \cup {game_id}, !.accepted = @ \cup {game_id}]

\* An active game ends and the host releases its reservation.
GameEnds ==
  \E game_id \in host.active_games :
    /\ LET m == Self IN Assign([m EXCEPT !.slots = release(@, game_id)])
    /\ host' = [host EXCEPT !.active_games = @ \ {game_id}]

InterleavedNext ==
  \/ Tick
  \/ GameDone
  \/ AcceptCheck
  \/ AcceptReserve
  \/ CreateStart
  \/ CreateLanes
  \/ CreateEligible
  \/ CreateCancelled
  \/ CreateProfile
  \/ CreateOnlineBots
  \/ CreateSelect
  \/ CreateCheck
  \/ CreateSend
  \/ CreateAnswer
  \/ CreateReserve
  \/ OutgoingAccepted
  \/ GameEnds

SpecInterleaved ==
  InitWith({<<TRUE, TRUE, 0>>}, {Capacity}, {NoCall}) /\ [][InterleavedNext]_vars

\* ----------------------------------------------------------------- claims
AtMostOnePerLane(s) == _bot_lane_counts(s)[1] <= 1 /\ _bot_lane_counts(s)[2] <= 1

\* C1 as stated: with capacity 3, in every state reachable by any sequence of
\* reserve_game, reserve_outgoing_challenge, confirm_game_start and release
\* calls, at most one reservation holds bot_short and at most one holds
\* bot_long.
C1_AtMostOnePerLaneAfterAnyCalls == AtMostOnePerLane(slots)

\* C1, restricted to guarded calls: from a tracker with at most one reservation
\* per bot lane, confirm_game_start and release keep it so, and so does
\* reserve_game called while can_accept_challenge holds for the challenge and
\* reserve_outgoing_challenge called while can_accept_bot_speed holds for its
\* speed, for some set of active games.  By induction the bound holds in every
\* state reached by such calls only.
C1_GuardedCallsKeepOnePerLane ==
  AtMostOnePerLane(slots) =>
    /\ \A id \in TrackerIds :
         /\ AtMostOnePerLane(confirm_game_start(slots, id))
         /\ AtMostOnePerLane(release(slots, id))
    /\ \A id \in TrackerIds, speed \in TrackerSpeeds, active_games \in SUBSET TrackerIds :
         /\ \A is_bot_game \in BOOLEAN :
              can_accept_challenge(slots, speed, is_bot_game, active_games)
                => AtMostOnePerLane(reserve_game(slots, id, is_bot_game, speed))
         /\ can_accept_bot_speed(slots, speed, active_games)
              => AtMostOnePerLane(reserve_outgoing_challenge(slots, id, speed))

\* The short lane is taken, so a short bot game is refused while a long one is
\* admitted, and reserving the long one fills both lanes.
C1_Witness ==
  /\ _bot_lane_counts(slots) = <<1, 0>>
  /\ \E id \in TrackerIds \ DOMAIN slots.slot_by_game_id :
       /\ ~can_accept_bot_speed(slots, "blitz", {})
       /\ can_accept_bot_speed(slots, "rapid", {})
       /\ _bot_lane_counts(reserve_outgoing_challenge(slots, id, "rapid")) = <<1, 1>>

\* C2 as stated: at most one outgoing challenge is outstanding at a time;
\* every id in pending_outgoing_challenges or pending_outgoing_correspondence
\* is the scheduler's recorded outstanding challenge_id.
C2_PendingIsTheOutstandingChallenge ==
  \A id \in slots.pending_outgoing_challenges \cup slots.pending_outgoing_correspondence :
    id = challenge_id

\* ------------------------------------------------------ one decision tick
\* Every call of challenge() the host can make in the current state and
\* everything it can lead to: the arguments, and the scheduler on return with
\* the log of the calls made.
AllActiveGames == SUBSET (Ids \cup {Untracked})
Ticks ==
  UNION {{[active_games |-> a, challenge_queue |-> q, m |-> r] :
            r \in Outcomes(Self, a, q, {NewId})} :
           a \in AllActiveGames, q \in BOOLEAN}

\* The challenges a tick sent to the Game Service, by kind.
RealTimeSent(m) == {i \in 1..Len(m.calls.challenge) : m.calls.challenge[i].params.days = 0}
CorrespondenceSent(m) == {i \in 1..Len(m.calls.challenge) : m.calls.challenge[i].params.days # 0}

\* C3 as stated: after game_done reset the post-game cooldown timer,
\* challenge() sends no real-time challenge until that timer has expired.
C3_NoRealTimeChallengeDuringCooldown ==
  ~is_expired(last_game_ended_delay) => \A t \in Ticks : RealTimeSent(t.m) = {}

\* C3, with the exception the code makes: while the post-game cooldown runs,
\* challenge() sends a real-time challenge only in a tick that found the
\* outstanding challenge older than its expiry window and than the minimum
\* spacing, and cancelled it.
C3_RealTimeChallengeDuringCooldownOnlyAfterExpiry ==
  ~is_expired(last_game_ended_delay) =>
    \A t \in Ticks :
      RealTimeSent(t.m) # {} =>
        /\ challenge_id # NoId
        /\ is_expired(last_challenge_created_delay)
        /\ time_since_reset(last_challenge_created_delay) > min_wait_time
        /\ t.m.calls.cancel = <<challenge_id>>

\* The cooldown runs and no tick sends a real-time challenge, though the same
\* ticks send one once the cooldown is over.
C3_Witness ==
  /\ ~is_expired(last_game_ended_delay)
  /\ \A t \in Ticks : RealTimeSent(t.m) = {}
  /\ \E m \in Outcomes([Self EXCEPT !.last_game_ended_delay.since = last_game_ended_delay.duration], {}, FALSE, {NewId}) :
       RealTimeSent(m) # {}

\* ---------------------------------------------------- the eligibility check
ChallengeExpired == is_expired(last_challenge_created_delay) /\ challenge_id # NoId
MinWaitTimePassed(ignore_min_wait) ==
  ignore_min_wait \/ time_since_reset(last_challenge_created_delay) > min_wait_time
TimeHasPassed(ignore_postgame_timeout) ==
  (ignore_postgame_timeout \/ is_expired(last_game_ended_delay)) /\ is_expired(rate_limit_timer)

\* C4 as stated: should_create_challenge returns true iff matchmaking is
\* enabled and (the post-game cooldown has expired or is ignored, and the
\* rate-limit timer has expired) and (the minimum spacing has passed or is
\* ignored, or the outstanding challenge had outlived its expiry window).
C4_TrueIffCooldownsAndSpacingOrExpiry ==
  \A ignore_postgame_timeout \in BOOLEAN, ignore_min_wait \in BOOLEAN :
    should_create_challenge(Self, ignore_postgame_timeout, ignore_min_wait).ret
      <=> /\ matchmaking_cfg.allow_matchmaking
          /\ TimeHasPassed(ignore_postgame_timeout)
          /\ (MinWaitTimePassed(ignore_min_wait) \/ ChallengeExpired)

\* C4, as the code groups it: should_create_challenge returns true iff
\* matchmaking is enabled and (the cooldowns are over, as above, or the
\* outstanding challenge had outlived its expiry window) and the minimum
\* spacing has passed or is ignored.
C4_TrueIffCooldownsOrExpiryAndSpacing ==
  \A ignore_postgame_timeout \in BOOLEAN, ignore_min_wait \in BOOLEAN :
    should_create_challenge(Self, ignore_postgame_timeout, ignore_min_wait).ret
      <=> /\ matchmaking_cfg.allow_matchmaking
          /\ (TimeHasPassed(ignore_postgame_timeout) \/ ChallengeExpired)
          /\ MinWaitTimePassed(ignore_min_wait)

\* The cooldowns are over and the outstanding challenge has expired, but the
\* minimum spacing has not passed: the check says no, and yes when told to
\* ignore the spacing.
C4_Witness ==
  /\ matchmaking_cfg.allow_matchmaking
  /\ ChallengeExpired
  /\ TimeHasPassed(FALSE)
  /\ ~MinWaitTimePassed(FALSE)
  /\ ~should_create_challenge(Self, FALSE, FALSE).ret
  /\ should_create_challenge(Self, FALSE, TRUE).ret

\* C5: should_create_challenge called with an outstanding challenge whose
\* 25-second timer has expired cancels exactly that id at the Game Service,
\* leaves it without reservation and in no pending set, and clears the
\* outstanding id; called otherwise it cancels nothing and leaves the tracker
\* and the outstanding id as they were.
C5_ExpiredChallengeCancelledElseUntouched ==
  \A ignore_postgame_timeout \in BOOLEAN, ignore_min_wait \in BOOLEAN :
    LET after == should_create_challenge(Self, ignore_postgame_timeout, ignore_min_wait).m IN
    IF challenge_id # NoId /\ is_expired(last_challenge_created_delay)
    THEN /\ after.calls.cancel = <<challenge_id>>
         /\ challenge_id \notin DOMAIN after.slots.slot_by_game_id
         /\ challenge_id \notin after.slots.pending_outgoing_challenges
         /\ challenge_id \notin after.slots.pending_outgoing_correspondence
         /\ after.challenge_id = NoId
    ELSE /\ after.calls.cancel = <<>>
         /\ after.slots = slots
         /\ after.challenge_id = challenge_id

\* An expired outstanding challenge that holds a pending reservation, which
\* the check cancels and releases.
C5_Witness ==
  /\ challenge_id # NoId
  /\ is_expired(last_challenge_created_delay)
  /\ challenge_id \in slots.pending_outgoing_challenges
  /\ LET after == should_create_challenge(Self, FALSE, FALSE).m IN
     /\ after.calls.cancel = <<challenge_id>>
     /\ after.slots.slot_by_game_id = <<>>
     /\ after.challenge_id = NoId

\* -------------------------------------------------------- challenge()
\* A tick in which background replenishment created a challenge.
BackgroundCreated(m) == CorrespondenceSent(m) # {} /\ m.challenge_id # NoId

\* C6: one call of challenge() sends at most one challenge to the Game
\* Service; when background replenishment created one, the tick stopped there
\* (one eligibility check, one opponent selection, nothing real-time).
C6_AtMostOneChallengePerTick ==
  \A t \in Ticks :
    /\ Len(t.m.calls.challenge) <= 1
    /\ BackgroundCreated(t.m) =>
         /\ Len(t.m.calls.should_create_challenge) = 1
         /\ Len(t.m.calls.choose_opponent) = 1
         /\ RealTimeSent(t.m) = {}

\* A real-time challenge is due, and a tick whose replenishment attempt was
\* sent and failed sends nothing more.
C6_Witness ==
  /\ should_create_challenge(Self, FALSE, FALSE).ret
  /\ available_bot_lanes(slots, {}) # {}
  /\ \E t \in Ticks :
       /\ t.active_games = {}
       /\ CorrespondenceSent(t.m) # {}
       /\ ~BackgroundCreated(t.m)
       /\ Len(t.m.calls.challenge) = 1

AtTarget == correspondence_reservation_count(slots) >= max_background_correspondence_games

\* C7 as stated: with the correspondence reservation count at or above
\* max_background_correspondence_games, challenge() never invokes
\* choose_opponent.
C7_NoOpponentSelectionAtTarget ==
  AtTarget => \A t \in Ticks : t.m.calls.choose_opponent = <<>>

\* C7, for the background path only: with the count at or above the target,
\* challenge() never invokes correspondence-only opponent selection and sends
\* no correspondence challenge.
C7_NoCorrespondenceSelectionAtTarget ==
  AtTarget =>
    \A t \in Ticks :
      /\ \A i \in 1..Len(t.m.calls.choose_opponent) :
           ~t.m.calls.choose_opponent[i].correspondence_only
      /\ CorrespondenceSent(t.m) = {}

\* The target of one is met by a reservation, replenishment would otherwise be
\* due, and no tick selects a correspondence opponent while one selects a
\* real-time opponent.
C7_Witness ==
  /\ max_background_correspondence_games = 1
  /\ correspondence_reservation_count(slots) = 1
  /\ should_create_challenge(Self, TRUE, FALSE).ret
  /\ \A t \in Ticks : \A i \in 1..Len(t.m.calls.choose_opponent) :
       ~t.m.calls.choose_opponent[i].correspondence_only
  /\ \E t \in Ticks : t.m.calls.choose_opponent # <<>>

\* The eligibility checks of a tick made with both conditions ignored.
ForcedChecks(m) ==
  {i \in 1..Len(m.calls.should_create_challenge) :
     /\ m.calls.should_create_challenge[i].ignore_postgame_timeout
     /\ m.calls.should_create_challenge[i].ignore_min_wait}

\* C8 as stated: after correspondence_game_done set the force-immediate
\* request, the next call of challenge() invokes should_create_challenge with
\* ignore_postgame_timeout and ignore_min_wait both true.
C8_NextTickChecksWithBothIgnored ==
  force_immediate_challenge => \A t \in Ticks : ForcedChecks(t.m) # {}

\* C8, for the ticks that reach replenishment: with the force-immediate
\* request set, a call of challenge() with an empty incoming queue, slot
\* accounting enabled and the correspondence count below the target makes
\* its first eligibility check with both conditions ignored and clears the
\* request; any other call makes no such check and leaves the request set.
C8_ReplenishingTickChecksWithBothIgnored ==
  force_immediate_challenge =>
    \A t \in Ticks :
      IF ~t.challenge_queue /\ slots.enabled /\ ~AtTarget
      THEN /\ 1 \in ForcedChecks(t.m)
           /\ ~t.m.force_immediate_challenge
      ELSE /\ ForcedChecks(t.m) = {}
           /\ t.m.force_immediate_challenge

\* The request is set less than the minimum spacing after the last challenge,
\* and a tick checks with both conditions ignored and creates a
\* correspondence challenge.
C8_Witness ==
  /\ force_immediate_challenge
  /\ ~MinWaitTimePassed(FALSE)
  /\ \E t \in Ticks :
       /\ 1 \in ForcedChecks(t.m)
       /\ BackgroundCreated(t.m)
       /\ ~t.m.force_immediate_challenge

\* C9: with a non-empty incoming challenge queue challenge() makes no Game
\* Service call and leaves the outstanding id, the force-immediate flag, the
\* timers and the tracker unchanged.
C9_QueuedChallengesMakeTickNoOp ==
  \A t \in Ticks :
    t.challenge_queue =>
      /\ t.m.calls.cancel = <<>>
      /\ t.m.calls.challenge = <<>>
      /\ t.m.challenge_id = challenge_id
      /\ t.m.force_immediate_challenge = force_immediate_challenge
      /\ t.m.last_challenge_created_delay = last_challenge_created_delay
      /\ t.m.last_game_ended_delay = last_game_ended_delay
      /\ t.m.rate_limit_timer = rate_limit_timer
      /\ t.m.slots = slots

\* The same call sends a challenge with an empty queue and does nothing with
\* a non-empty one, an expired challenge and the force-immediate request
\* waiting.
C9_Witness ==
  /\ force_immediate_challenge
  /\ ChallengeExpired
  /\ \E t \in Ticks :
       /\ ~t.challenge_queue
       /\ t.m.calls.cancel # <<>>
       /\ t.m.calls.challenge # <<>>
  /\ \E t \in Ticks : t.challenge_queue /\ t.m = Self

\* The tracker at the point where the real-time path asks for the available
\* lanes: as the tick found it, less the reservation of an expired outstanding
\* challenge that the eligibility check of the background path cancelled.
TrackerWhenAsked(m) ==
  IF ChallengeExpired
     /\ \E i \in 1..Len(m.calls.should_create_challenge) :
          m.calls.should_create_challenge[i].ignore_postgame_timeout
  THEN release(slots, challenge_id) ELSE slots

RealTimeSelections(m) ==
  {i \in 1..Len(m.calls.choose_opponent) : ~m.calls.choose_opponent[i].correspondence_only}

SentLane(sent) ==
  bot_lane_for_speed(game_category("standard", sent.params.clock_limit,
                                   sent.params.clock_increment, 0))

LaneSlot(lane) == IF lane = "short" THEN "bot_short" ELSE "bot_long"

\* A bot game in progress holds the long lane, the short lane is free and one
\* correspondence reservation exists.
LongGameAndCorrespondence(active_games) ==
  /\ slots.enabled
  /\ _bot_lane_counts(slots) = <<0, 1>>
  /\ correspondence_reservation_count(slots) = 1
  /\ \E g \in active_games \cap Started(slots) : slots.slot_by_game_id[g] = "bot_long"

\* C10: every real-time opponent selection of challenge() is called with
\* exactly the lanes available_bot_lanes(active_games) reported in that tick,
\* the lane of a real-time challenge that is sent is one of them and is the
\* lane reserved for it; with one long-lane bot game in progress and one
\* correspondence reservation, selection is restricted to {short}.
C10_RealTimeChallengeWithinAvailableLanes ==
  \A t \in Ticks :
    LET lanes == available_bot_lanes(TrackerWhenAsked(t.m), t.active_games) IN
    /\ \A i \in RealTimeSelections(t.m) :
         /\ t.m.calls.choose_opponent[i].allowed_bot_lanes = lanes
         /\ LongGameAndCorrespondence(t.active_games)
              => t.m.calls.choose_opponent[i].allowed_bot_lanes = {"short"}
    /\ \A j \in RealTimeSent(t.m) :
         /\ SentLane(t.m.calls.challenge[j]) \in lanes
         /\ (t.m.challenge_id # NoId /\ slots.enabled) =>
              /\ t.m.challenge_id \in t.m.slots.pending_outgoing_challenges
              /\ t.m.slots.slot_by_game_id[t.m.challenge_id]
                   = LaneSlot(SentLane(t.m.calls.challenge[j]))

\* With a long bot game in progress and a correspondence reservation, a tick
\* selects among the short lane only, sends one short challenge and reserves
\* the short lane for it.
C10_Witness ==
  \E t \in Ticks :
    /\ LongGameAndCorrespondence(t.active_games)
    /\ \E i \in RealTimeSelections(t.m) :
         t.m.calls.choose_opponent[i].allowed_bot_lanes = {"short"}
    /\ Len(t.m.calls.challenge) = 1
    /\ RealTimeSent(t.m) = {1}
    /\ t.m.challenge_id = NewId
    /\ t.m.slots.slot_by_game_id[NewId] = "bot_short"

\* ------------------------------------------- spacing while games are active
\* The spacing challenge() requires since the challenge-created timer was last
\* reset before it challenges with a game in progress.
RequiredSpacing == IF slots.enabled THEN min_wait_time ELSE Self.max_wait_time

\* C11: with at least one active game, a call of challenge() made before the
\* required spacing has elapsed on the challenge-created timer sends no
\* real-time challenge; the spacing is min_wait_time with slot accounting
\* enabled and max_wait_time without it.
C11_NoRealTimeChallengeBeforeSpacing ==
  \A t \in Ticks :
    (t.active_games # {}
     /\ time_since_reset(last_challenge_created_delay) < RequiredSpacing)
      => RealTimeSent(t.m) = {}

\* Accounting is disabled, no cooldown runs and more than min_wait_time but
\* less than max_wait_time has elapsed: a tick with a game in progress sends
\* nothing, a tick without one sends a real-time challenge.
C11_Witness ==
  /\ ~slots.enabled
  /\ time_since_reset(last_challenge_created_delay) > min_wait_time
  /\ time_since_reset(last_challenge_created_delay) < RequiredSpacing
  /\ \E t \in Ticks :
       /\ Cardinality(t.active_games) = 1
       /\ ~t.challenge_queue
       /\ t.m.calls.challenge = <<>>
  /\ \E t \in Ticks : t.active_games = {} /\ RealTimeSent(t.m) # {}

\* -------------------------------------------- challenging during games off
\* The values the host may pass as max_games.
MaxGamesArgs == 0..MaxCapacity

\* C12: with allow_during_games disabled, a call of challenge() with at least
\* one active game sends no real-time challenge, whatever max_games it is
\* given.
C12_NoRealTimeChallengeDuringGamesWhenDisallowed ==
  ~matchmaking_cfg.allow_during_games =>
    \A active_games \in AllActiveGames \ {{}}, challenge_queue \in BOOLEAN,
       max_games \in MaxGamesArgs :
      \A m \in OutcomesWith(Self, active_games, challenge_queue, max_games, {NewId}) :
        RealTimeSent(m) = {}

\* Challenging during games is off, the tracker has both lanes free and the
\* short spacing has elapsed: a tick with one game in progress sends nothing,
\* a tick without games sends a real-time challenge.
C12_Witness ==
  /\ ~matchmaking_cfg.allow_during_games
  /\ available_bot_lanes(slots, {Untracked}) = BothLanes
  /\ time_since_reset(last_challenge_created_delay) > min_wait_time
  /\ \A m \in OutcomesWith(Self, {Untracked}, FALSE, Capacity, {NewId}) : RealTimeSent(m) = {}
  /\ \E m \in OutcomesWith(Self, {}, FALSE, Capacity, {NewId}) : RealTimeSent(m) # {}

\* ------------------------------------------------- the tracker's bookkeeping
Pending(s) == s.pending_outgoing_challenges \cup s.pending_outgoing_correspondence
Keys(s) == DOMAIN s.slot_by_game_id
TrackerActiveSets == SUBSET (TrackerIds \cup {Untracked})

\* C13: in every state of MatchmakingSlots reached by reserve_game,
\* reserve_outgoing_challenge, confirm_game_start and release calls, every id
\* in pending_outgoing_challenges or pending_outgoing_correspondence is a key
\* of slot_by_game_id.
C13_PendingIdsAreReserved == Pending(slots) \subseteq Keys(slots)

\* One pending real-time challenge, one pending correspondence challenge and
\* one reservation that is not pending.
C13_Witness ==
  /\ slots.pending_outgoing_challenges # {}
  /\ slots.pending_outgoing_correspondence # {}
  /\ Keys(slots) \ Pending(slots) # {}

\* The reservations and pending flags of every id other than id are the same
\* in s and r.
SameElsewhere(s, r, id) ==
  /\ Keys(r) \ {id} = Keys(s) \ {id}
  /\ \A k \in Keys(s) \ {id} : r.slot_by_game_id[k] = s.slot_by_game_id[k]
  /\ r.pending_outgoing_challenges \ {id} = s.pending_outgoing_challenges \ {id}
  /\ r.pending_outgoing_correspondence \ {id} = s.pending_outgoing_correspondence \ {id}

\* C14: reserve_game, reserve_outgoing_challenge and confirm_game_start remove
\* no key of slot_by_game_id, release(id) removes none but id, and
\* confirm_game_start(id) leaves slot_by_game_id as it is, takes id out of
\* both pending sets and touches no other id.
C14_KeysLeaveOnlyThroughRelease ==
  \A id \in TrackerIds :
    /\ \A speed \in TrackerSpeeds :
         /\ \A is_bot_game \in BOOLEAN :
              Keys(slots) \subseteq Keys(reserve_game(slots, id, is_bot_game, speed))
         /\ Keys(slots) \subseteq Keys(reserve_outgoing_challenge(slots, id, speed))
    /\ Keys(slots) \ {id} \subseteq Keys(release(slots, id))
    /\ LET r == confirm_game_start(slots, id) IN
       /\ r.slot_by_game_id = slots.slot_by_game_id
       /\ r.pending_outgoing_challenges = slots.pending_outgoing_challenges \ {id}
       /\ r.pending_outgoing_correspondence = slots.pending_outgoing_correspondence \ {id}
       /\ r.max_games = slots.max_games /\ r.enabled = slots.enabled

\* Two challenges are pending; confirming one keeps its reservation, clears
\* its flag and leaves the other pending.
C14_Witness ==
  \E id \in slots.pending_outgoing_challenges :
    /\ Pending(slots) \ {id} # {}
    /\ id \in Keys(confirm_game_start(slots, id))
    /\ Pending(confirm_game_start(slots, id)) = Pending(slots) \ {id}

\* C15: release(id) twice gives the tracker a single release(id) gives;
\* release of an id without reservation leaves the tracker as it is; and
\* release(id) changes the reservation and pending flags of no other id.
C15_ReleaseIsIdempotent ==
  \A id \in TrackerIds \cup {Untracked} :
    /\ release(release(slots, id), id) = release(slots, id)
    /\ id \notin Keys(slots) => release(slots, id) = slots
    /\ SameElsewhere(slots, release(slots, id), id)

\* A pending challenge is released while another challenge is pending; an id
\* never reserved is released too.
C15_Witness ==
  \E id \in Pending(slots) :
    /\ Pending(slots) \ {id} # {}
    /\ release(slots, id) # slots
    /\ id \notin Keys(release(slots, id))
    /\ Untracked \notin Keys(slots)
    /\ release(slots, Untracked) = slots

\* The bot lane a reservation holds ("None" for the other lanes).
BotLaneOf(slot) ==
  IF slot = "bot_short" THEN "short" ELSE IF slot = "bot_long" THEN "long" ELSE "None"
SpeedsOfLane(lane) == IF lane = "short" THEN BOT_SHORT_SPEEDS ELSE BOT_LONG_SPEEDS

\* After release(id) of a reservation that held bot lane `lane`, the lane is
\* offered and a speed of it accepted for every active set that leaves a slot.
LaneFreedBy(id) ==
  LET lane == BotLaneOf(slots.slot_by_game_id[id])
      r == release(slots, id)
  IN \A active_games \in TrackerActiveSets :
       used_slots(r, active_games) < r.max_games =>
         /\ lane \in available_bot_lanes(r, active_games)
         /\ \A speed \in SpeedsOfLane(lane) : can_accept_bot_speed(r, speed, active_games)

\* C16 as stated: with capacity 3, after release(id) of a reservation that
\* holds a bot lane, for every active set with used_slots below capacity
\* available_bot_lanes contains that lane and can_accept_bot_speed holds for
\* a speed of that lane.
C16_ReleaseFreesLane ==
  slots.enabled =>
    \A id \in Keys(slots) :
      BotLaneOf(slots.slot_by_game_id[id]) # "None" => LaneFreedBy(id)

\* C16, for a tracker with at most one reservation per bot lane (what guarded
\* reserve calls keep): release(id) of a reservation that holds a bot lane
\* makes that lane available again.
C16_ReleaseFreesLaneWhenOnePerLane ==
  (slots.enabled /\ AtMostOnePerLane(slots)) =>
    \A id \in Keys(slots) :
      BotLaneOf(slots.slot_by_game_id[id]) # "None" => LaneFreedBy(id)

\* Both bot lanes are taken, one reservation each, so no lane is offered;
\* releasing the short one offers the short lane again.
C16_Witness ==
  /\ _bot_lane_counts(slots) = <<1, 1>>
  /\ available_bot_lanes(slots, {}) = {}
  /\ \E id \in Keys(slots) :
       /\ slots.slot_by_game_id[id] = "bot_short"
       /\ available_bot_lanes(release(slots, id), {}) = {"short"}
       /\ can_accept_bot_speed(release(slots, id), "blitz", {})

\* C17: with accounting enabled, used_slots(active) is the size of the union
\* of active and pending_outgoing_challenges: a pending outgoing challenge in
\* active counts once, and pending_outgoing_correspondence counts never.
C17_UsedSlotsCountsUnion ==
  slots.enabled =>
    \A active_games \in TrackerActiveSets :
      /\ used_slots(slots, active_games)
           = Cardinality(active_games \cup slots.pending_outgoing_challenges)
      /\ used_slots(slots, active_games)
           = Cardinality(active_games)
             + Cardinality(slots.pending_outgoing_challenges \ active_games)
      /\ used_slots(slots, active_games)
           = used_slots([slots EXCEPT !.pending_outgoing_correspondence = {}], active_games)

\* A real-time and a correspondence challenge are pending: alone they use one
\* slot, and still one when the real-time challenge is among the active
\* games.
C17_Witness ==
  /\ slots.enabled
  /\ slots.pending_outgoing_correspondence # {}
  /\ \E id \in slots.pending_outgoing_challenges :
       /\ slots.pending_outgoing_challenges = {id}
       /\ used_slots(slots, {}) = 1
       /\ used_slots(slots, {id}) = 1
       /\ used_slots(slots, {Untracked}) = 2

\* C18: for every capacity other than 3 accounting is disabled: the four
\* mutators leave the tracker empty and unchanged, can_accept_human,
\* can_accept_correspondence and can_accept_bot_speed equal
\* |active| < capacity, and available_bot_lanes is {short, long} when
\* |active| < capacity and empty otherwise.
C18_OtherCapacitiesUseOnePool ==
  slots.max_games # Capacity =>
    /\ ~slots.enabled
    /\ slots = MatchmakingSlots(slots.max_games)
    /\ \A id \in TrackerIds :
         /\ \A speed \in Speeds :
              /\ \A is_bot_game \in BOOLEAN :
                   reserve_game(slots, id, is_bot_game, speed) = slots
              /\ reserve_outgoing_challenge(slots, id, speed) = slots
         /\ confirm_game_start(slots, id) = slots
         /\ release(slots, id) = slots
    /\ \A active_games \in TrackerActiveSets :
         LET room == Cardinality(active_games) < slots.max_games IN
         /\ can_accept_human(slots, active_games) = room
         /\ can_accept_correspondence(slots, active_games) = room
         /\ \A speed \in Speeds : can_accept_bot_speed(slots, speed, active_games) = room
         /\ available_bot_lanes(slots, active_games) = (IF room THEN BothLanes ELSE {})

\* A tracker of capacity 2 after a reserve_game call: still empty, open with
\* one active game and closed with two.
C18_Witness ==
  /\ slots.max_games = 2
  /\ reserve_game(slots, NewId, TRUE, "blitz") = MatchmakingSlots(2)
  /\ available_bot_lanes(slots, {Untracked}) = BothLanes
  /\ can_accept_bot_speed(slots, "blitz", {Untracked})
  /\ available_bot_lanes(slots, {Untracked, NewId}) = {}
  /\ ~can_accept_human(slots, {Untracked, NewId})

\* C19: with capacity 3, no active games and no bot reservation or pending
\* real-time challenge so far: after reserve_outgoing_challenge of a short
\* speed can_accept_bot_speed is false for every short speed and true for
\* every long speed; after a long speed is reserved as well
\* available_bot_lanes({}) is empty and can_accept_bot_speed is false for
\* every real-time speed, while correspondence is accepted and
\* can_accept_human holds until a third slot is used.
C19_TwoBotLanesAtCapacityThree ==
  (slots.enabled /\ _bot_lane_counts(slots) = <<0, 0>> /\ slots.pending_outgoing_challenges = {}) =>
    \A a \in TrackerIds, b \in TrackerIds, short \in BOT_SHORT_SPEEDS, long \in BOT_LONG_SPEEDS :
      a # b =>
        LET one == reserve_outgoing_challenge(slots, a, short)
            two == reserve_outgoing_challenge(one, b, long)
        IN /\ \A speed \in BOT_SHORT_SPEEDS : ~can_accept_bot_speed(one, speed, {})
           /\ \A speed \in BOT_LONG_SPEEDS : can_accept_bot_speed(one, speed, {})
           /\ available_bot_lanes(two, {}) = {}
           /\ \A speed \in BOT_SHORT_SPEEDS \cup BOT_LONG_SPEEDS :
                ~can_accept_bot_speed(two, speed, {})
           /\ can_accept_bot_speed(two, CORRESPONDENCE_SPEED, {})
           /\ can_accept_human(two, {})
           /\ \A active_games \in TrackerActiveSets :
                can_accept_human(two, active_games) <=> active_games \subseteq {a, b}

\* A short and a long outgoing challenge are the only reservations: no lane
\* is offered, correspondence and a human are accepted.
C19_Witness ==
  /\ slots.enabled
  /\ Cardinality(slots.pending_outgoing_challenges) = 2
  /\ Cardinality(Keys(slots)) = 2
  /\ _bot_lane_counts(slots) = <<1, 1>>
  /\ available_bot_lanes(slots, {}) = {}
  /\ can_accept_bot_speed(slots, CORRESPONDENCE_SPEED, {})
  /\ can_accept_human(slots, {})
  /\ ~can_accept_human(slots, {Untracked})

\* ------------------------------------------------------- rate-limit errors
\* The Game Service refusing a challenge because this bot is rate limited: the
\* call raises RateLimitedError, or answers without id and with
\* bot_is_rate_limited.
RateLimitResponses ==
  {r \in Responses({NewId}) : r.kind \in {"RateLimitedError", "bot_is_rate_limited"}}
LaneRestrictions == {NoLanes, BothLanes, {"short"}, {"long"}}
\* The selections that find an opponent (without one nothing is sent).

\* C20: when the Game Service rejects the challenge with a rate-limit error,
\* create_challenge arms the rate-limit timer with the cooldown the server
\* gave and returns no challenge id; create_matchmaking_challenge then returns
\* false, leaves the tracker as it was and the outstanding challenge id
\* empty.
C20_RateLimitArmsTimerAndAborts ==
  \A r \in RateLimitResponses :
    /\ \A username \in Usernames,
          control \in {<<60, 0, 0>>, <<600, 0, 0>>, <<0, 0, 1>>} :
         LET created == create_challenge(Self, username, control[1], control[2], control[3],
                                         "standard", "rated", r)
         IN /\ created.id = NoId
            /\ created.m.rate_limit_timer = Timer(r.timeout)
            /\ Len(created.m.calls.challenge) = 1
    /\ \A active_games \in ActiveGames, allowed_bot_lanes \in LaneRestrictions,
          correspondence_only \in BOOLEAN, env \in OpponentFound :
         LET aborted(made) ==
               made.m.calls.challenge # <<>> =>
                 /\ ~made.ret
                 /\ made.m.rate_limit_timer = Timer(r.timeout)
                 /\ made.m.slots = slots
                 /\ made.m.challenge_id = NoId
         IN aborted(create_matchmaking_challenge(Self, active_games, allowed_bot_lanes,
                                                 correspondence_only, env, r))

\* A challenge was just refused with a rate-limit error: the rate-limit timer
\* runs with the server's cooldown, the challenge-created timer was restarted
\* and no challenge is outstanding.
C20_Witness ==
  /\ \E r \in RateLimitResponses : rate_limit_timer = Timer(r.timeout)
  /\ ~is_expired(rate_limit_timer)
  /\ time_since_reset(last_challenge_created_delay) = 0
  /\ challenge_id = NoId
  /\ Keys(slots) # {}

\* ------------------------------------------------- accepted and declined
\* The lane id holds in tracker s ("none" without reservation).
LaneOf(s, id) == IF id \in Keys(s) THEN s.slot_by_game_id[id] ELSE "none"

\* No call of should_create_challenge on m cancels or releases anything.
NothingCancelled(m) ==
  \A ignore_postgame_timeout \in BOOLEAN, ignore_min_wait \in BOOLEAN :
    LET checked(r) == r.calls.cancel = <<>> /\ r.slots = m.slots /\ r.challenge_id = m.challenge_id
    IN checked(should_create_challenge(m, ignore_postgame_timeout, ignore_min_wait).m)

\* C21: after accepted_challenge(g) for the outstanding challenge g, the
\* outstanding id is empty, g is in neither pending set and keeps its
\* reservation and lane, and should_create_challenge cancels nothing; in every
\* later state, should_create_challenge neither cancels a game that started
\* nor releases its reservation.
C21_AcceptedChallengeIsNotCancelled ==
  /\ challenge_id # NoId =>
       LET g == challenge_id
           accepted(m) ==
             /\ m.challenge_id = NoId
             /\ g \notin Pending(m.slots)
             /\ LaneOf(m.slots, g) = LaneOf(slots, g)
             /\ SameElsewhere(slots, m.slots, g)
             /\ NothingCancelled(m)
       IN accepted(accepted_challenge(Self, g))
  /\ \A g \in Started(slots) :
       \A ignore_postgame_timeout \in BOOLEAN, ignore_min_wait \in BOOLEAN :
         LET kept(r) ==
               /\ \A i \in 1..Len(r.calls.cancel) : r.calls.cancel[i] # g
               /\ LaneOf(r.slots, g) = LaneOf(slots, g)
               /\ g \notin Pending(r.slots)
         IN kept(should_create_challenge(Self, ignore_postgame_timeout, ignore_min_wait).m)

\* The outstanding challenge is pending and past its expiry: the eligibility
\* check would cancel and release it, and after accepted_challenge it cancels
\* nothing and the reservation is kept.
C21_Witness ==
  /\ ChallengeExpired
  /\ challenge_id \in Pending(slots)
  /\ should_create_challenge(Self, FALSE, FALSE).m.calls.cancel = <<challenge_id>>
  /\ challenge_id \notin Keys(should_create_challenge(Self, FALSE, FALSE).m.slots)
  /\ challenge_id \in Started(accepted_challenge(Self, challenge_id).slots)
  /\ NothingCancelled(accepted_challenge(Self, challenge_id))

\* The declined-challenge events: any id, sent by us or not.
DeclinedChallenges ==
  [id : TrackerIds, from_self : BOOLEAN, speed : {"bullet", "classical", "correspondence"},
   rated : BOOLEAN, variant : {"standard"}, challenge_target : Usernames]

\* C22: declined_challenge for a challenge we sent clears the outstanding id
\* when it is that challenge and removes its reservation and pending flags,
\* leaving every other id alone; for a challenge we did not send the tracker
\* is unchanged and nothing is recorded in the acceptance memory.
C22_DeclineReleasesOnlyOurChallenge ==
  \A chal \in DeclinedChallenges, reason_key \in ReasonKeys :
    LET declined(m) ==
          /\ m.challenge_id = (IF challenge_id = chal.id THEN NoId ELSE challenge_id)
          /\ chal.from_self =>
               /\ chal.id \notin Keys(m.slots) \cup Pending(m.slots)
               /\ SameElsewhere(slots, m.slots, chal.id)
          /\ ~chal.from_self =>
               /\ m.slots = slots
               /\ m.calls.add_challenge_filter = <<>>
    IN declined(declined_challenge(Self, chal, reason_key))

\* The outstanding real-time challenge holds the only taken bot lane: declined
\* as ours, its lane is offered again; declined as somebody else's, the
\* reservation stays.
C22_Witness ==
  /\ challenge_id \in slots.pending_outgoing_challenges
  /\ Cardinality(available_bot_lanes(slots, {})) = 1
  /\ \E chal \in DeclinedChallenges :
       /\ chal.id = challenge_id /\ chal.from_self
       /\ available_bot_lanes(declined_challenge(Self, chal, "generic").slots, {}) = BothLanes
       /\ declined_challenge(Self, chal, "generic").challenge_id = NoId
       /\ declined_challenge(Self, [chal EXCEPT !.from_self = FALSE], "generic").slots = slots

\* -------------------------------------------- create_matchmaking_challenge
\* The ways challenge() calls create_matchmaking_challenge: correspondence
\* only without lane restriction, or real time within the offered lanes.
Requests ==
  {[allowed_bot_lanes |-> NoLanes, correspondence_only |-> TRUE]}
  \cup {[allowed_bot_lanes |-> lanes, correspondence_only |-> FALSE] :
          lanes \in {BothLanes, {"short"}, {"long"}}}
Selections == OpponentFound \cup {DefaultEnv}

\* Every call of create_matchmaking_challenge on the current state: its
\* arguments, the response of the Game Service and what it returned.
Creations ==
  {[response |-> r,
    made |-> create_matchmaking_challenge(Self, a, q.allowed_bot_lanes, q.correspondence_only, e, r)] :
     a \in ActiveGames, q \in Requests, e \in Selections, r \in Responses({NewId})}

\* The slot and the pending set of the challenge a call sent.
SentSlot(sent) ==
  IF sent.params.days # 0 THEN CORRESPONDENCE_SPEED ELSE LaneSlot(SentLane(sent))
SentPending(s, sent) ==
  IF sent.params.days # 0 THEN s.pending_outgoing_correspondence
  ELSE s.pending_outgoing_challenges

\* The call returned true exactly when a challenge was sent and answered with
\* an id, the outstanding id is then that id, and a call that returned false
\* left the tracker alone.
TrueIffIdReturned(c) ==
  /\ c.made.ret <=> (c.made.m.calls.challenge # <<>> /\ c.response.kind = "id")
  /\ c.made.ret => c.made.m.challenge_id = c.response.id
  /\ ~c.made.ret => c.made.m.slots = slots

\* The tracker holds the reservation of the new challenge in the lane of its
\* speed, pending in the matching set only, and nothing else changed.
ReservedAsSent(c) ==
  /\ LaneOf(c.made.m.slots, c.response.id) = SentSlot(c.made.m.calls.challenge[1])
  /\ c.response.id \in SentPending(c.made.m.slots, c.made.m.calls.challenge[1])
  /\ Cardinality({c.response.id} \cap c.made.m.slots.pending_outgoing_challenges)
       + Cardinality({c.response.id} \cap c.made.m.slots.pending_outgoing_correspondence) = 1
  /\ SameElsewhere(slots, c.made.m.slots, c.response.id)

\* C23 as stated: create_matchmaking_challenge returns true exactly when the
\* Game Service returned a challenge id; the outstanding id is then that id
\* and the tracker holds a reservation for it in the lane of its speed with
\* the id in the matching pending set; when it returns false the tracker is
\* unchanged.
C23_TrueIffIdReturnedAndReserved ==
  \A c \in Creations :
    /\ TrueIffIdReturned(c)
    /\ c.made.ret => ReservedAsSent(c)

\* C23, with the reservation only where accounting is enabled: a tracker of a
\* capacity other than 3 stays empty when the call returns true.
C23_TrueIffIdReturnedAndReservedWhenEnabled ==
  \A c \in Creations :
    /\ TrueIffIdReturned(c)
    /\ c.made.ret =>
         IF slots.enabled THEN ReservedAsSent(c) ELSE c.made.m.slots = slots

\* With accounting enabled, one call gets an id for a correspondence challenge
\* and reserves it, another sends a challenge and gets no id.
C23_Witness ==
  /\ slots.enabled
  /\ \E c \in Creations :
       /\ c.made.ret
       /\ LaneOf(c.made.m.slots, NewId) = CORRESPONDENCE_SPEED
       /\ NewId \in c.made.m.slots.pending_outgoing_correspondence
  /\ \E c \in Creations :
       /\ c.made.ret
       /\ LaneOf(c.made.m.slots, NewId) = "bot_long"
  /\ \E c \in Creations :
       /\ ~c.made.ret
       /\ c.made.m.calls.challenge # <<>>
       /\ c.response.kind = "no_id"

\* ------------------------------------------------- the acceptance memory
\* FilterType: "none", "coarse", "fine".
FilterTypes == {"none", "coarse", "fine"}
\* The decline reason keys of the Game Service, and one it does not have.
DeclineReasonKeys ==
  {"generic", "later", "nobot", "toofast", "tooslow", "timecontrol", "rated", "casual",
   "standard", "variant", "unknown"}
\* Declined challenges we sent.
OurDeclinedChallenges ==
  [id : {NewId}, from_self : {TRUE}, speed : {"bullet"}, rated : BOOLEAN,
   variant : {"standard", "chess960"}, challenge_target : Usernames]

\* The aspect the claim gives for a reason key under the fine filter.
FineAspect(chal, reason_key) ==
  IF reason_key \in {"toofast", "tooslow", "timecontrol"} THEN chal.speed
  ELSE IF reason_key \in {"rated", "casual"} THEN (IF chal.rated THEN "rated" ELSE "casual")
  ELSE IF reason_key \in {"standard", "variant"} THEN chal.variant
  ELSE ""

\* The scheduler as it is, configured with challenge filter f (the filter is
\* read by declined_challenge only).
WithFilter(f) == [Self EXCEPT !.matchmaking_cfg.challenge_filter = f]

\* C24: on a decline of a challenge we sent, nothing is recorded with filter
\* none; with coarse the entry (opponent, "") is recorded; with fine the
\* aspect is the speed for toofast, tooslow and timecontrol, the mode for
\* rated and casual, the variant for standard and variant, and "" for
\* generic, later, nobot and an unknown key; the entry lasts one day.
C24_DeclineRecordsAspectByFilter ==
  \A f \in FilterTypes, chal \in OurDeclinedChallenges, reason_key \in DeclineReasonKeys :
    LET recorded(log) ==
          IF f = "none" THEN log = <<>>
          ELSE log = <<[username |-> chal.challenge_target,
                        game_aspect |-> IF f = "fine" THEN FineAspect(chal, reason_key) ELSE "",
                        timeout |-> days(1)]>>
    IN recorded(declined_challenge(WithFilter(f), chal, reason_key).calls.add_challenge_filter)

\* The outstanding challenge is declined as too fast: the fine filter records
\* its speed, the coarse filter the empty aspect, the filter none nothing.
C24_Witness ==
  /\ challenge_id \in slots.pending_outgoing_challenges
  /\ \E chal \in OurDeclinedChallenges :
       LET mine == [chal EXCEPT !.id = challenge_id] IN
       /\ declined_challenge(WithFilter("fine"), mine, "toofast").calls.add_challenge_filter[1].game_aspect = "bullet"
       /\ declined_challenge(WithFilter("coarse"), mine, "toofast").calls.add_challenge_filter[1].game_aspect = ""
       /\ declined_challenge(WithFilter("none"), mine, "toofast").calls.add_challenge_filter = <<>>
       /\ declined_challenge(WithFilter("fine"), mine, "toofast").challenge_id = NoId

\* ------------------------------------------------------- the pure functions
\* The reference classification of a game by variant, days and duration.
ReferenceCategory(variant, base, inc, num_days) ==
  LET duration == base + 40 * inc IN
  CASE variant # "standard" -> variant
    [] variant = "standard" /\ num_days # 0 -> "correspondence"
    [] variant = "standard" /\ num_days = 0 /\ duration < 179 -> "bullet"
    [] variant = "standard" /\ num_days = 0 /\ 179 <= duration /\ duration < 479 -> "blitz"
    [] variant = "standard" /\ num_days = 0 /\ 479 <= duration /\ duration < 1499 -> "rapid"
    [] variant = "standard" /\ num_days = 0 /\ 1499 <= duration -> "classical"

\* C25: game_category(variant, base, inc, days) is the reference
\* classification for every input: the variant when it is not "standard",
\* otherwise "correspondence" when days is nonzero, otherwise by the duration
\* base + 40 * inc: bullet below 179, blitz below 479, rapid below 1499 and
\* classical from there on.
C25_GameCategoryIsReference ==
  (call.fn = "game_category" /\ call.returned) =>
    call.ret = ReferenceCategory(call.variant, call.base_time, call.increment, call.num_days)

\* A standard game of duration exactly 179 was classified as blitz.
C25_Witness ==
  /\ call.fn = "game_category" /\ call.returned
  /\ call.variant = "standard" /\ call.num_days = 0
  /\ call.base_time + 40 * call.increment = 179
  /\ call.ret = "blitz"

\* The index pairs of a base time and an increment that make a real-time
\* control of an allowed lane, and the indices of the nonzero day counts that
\* make a correspondence control.
KeptPairs(bases, incs, lanes) ==
  {p \in (1..Len(bases)) \X (1..Len(incs)) :
     /\ bases[p[1]] # 0 \/ incs[p[2]] # 0
     /\ lanes # NoLanes =>
          bot_lane_for_speed(game_category("standard", bases[p[1]], incs[p[2]], 0)) \in lanes}
KeptDays(day_counts, lanes) ==
  {k \in 1..Len(day_counts) : day_counts[k] # 0 /\ (lanes # NoLanes => "long" \in lanes)}

\* ret holds exactly one (base, increment, 0) per kept pair and one
\* (0, 0, d) per kept day count.
ExactlyTheControls(ret, bases, incs, day_counts, lanes) ==
  /\ {ret[i] : i \in 1..Len(ret)}
       = {<<bases[p[1]], incs[p[2]], 0>> : p \in KeptPairs(bases, incs, lanes)}
         \cup {<<0, 0, day_counts[k]>> : k \in KeptDays(day_counts, lanes)}
  /\ Len(ret) = Cardinality(KeptPairs(bases, incs, lanes)) + Cardinality(KeptDays(day_counts, lanes))

\* C26 as stated: configured_time_controls returns exactly the cross product
\* of the configured base times and increments, keeping a pair only if base
\* or increment is nonzero, plus one (0, 0, d) per nonzero configured day
\* count; with a lane set, a real-time control is kept only if its
\* standard-variant speed is in an allowed lane and correspondence controls
\* only if "long" is allowed.
C26_ExactlyTheConfiguredControls ==
  (call.fn = "configured_time_controls" /\ call.returned) =>
    ExactlyTheControls(call.ret, call.match_config.challenge_initial_time,
                       call.match_config.challenge_increment,
                       call.match_config.challenge_days, call.allowed_bot_lanes)

\* C26 amended: the same, where an empty list of base times or of increments
\* counts as the single value 0, and the (0, 0, d) entries are part of the
\* result only when include_correspondence is true (its default).
C26_ExactlyTheConfiguredControlsWithDefaults ==
  (call.fn = "configured_time_controls" /\ call.returned) =>
    LET or_zero(list) == IF list = <<>> THEN <<0>> ELSE list IN
    ExactlyTheControls(call.ret, or_zero(call.match_config.challenge_initial_time),
                       or_zero(call.match_config.challenge_increment),
                       IF call.include_correspondence THEN call.match_config.challenge_days ELSE <<>>,
                       call.allowed_bot_lanes)

\* Lanes {short} on initial [60, 600], increment [0], days [1] gave exactly
\* (60, 0, 0).
C26_Witness ==
  /\ call.fn = "configured_time_controls" /\ call.returned
  /\ call.match_config.challenge_initial_time = <<60, 600>>
  /\ call.match_config.challenge_increment = <<0>>
  /\ call.match_config.challenge_days = <<1>>
  /\ call.allowed_bot_lanes = {"short"}
  /\ call.include_correspondence
  /\ call.ret = << <<60, 0, 0>> >>

\* The rating of the i-th candidate of the call, and the candidates whose
\* rating lies inside the window.
RatingOf(i) ==
  LET perfs == call.online_bots[i].perfs
  IN IF call.game_type \in DOMAIN perfs THEN perfs[call.game_type] ELSE 0
InWindow ==
  {i \in 1..Len(call.online_bots) :
     call.min_rating <= RatingOf(i) /\ RatingOf(i) <= call.max_rating}

\* The weights of the candidates inside the window lie on one line over the
\* ratings.
LinearInRating ==
  \A i \in InWindow, j \in InWindow, k \in InWindow :
    (call.ret[i] - call.ret[j]) * (RatingOf(k) - RatingOf(j))
      = (call.ret[k] - call.ret[j]) * (RatingOf(i) - RatingOf(j))

\* C27: for candidates rated inside [min_rating, max_rating] with
\* min_rating < max_rating the weights are strictly positive integers; with
\* preference "high" they grow linearly with the rating and the weight at
\* max_rating is twice the weight at min_rating; with "low" they fall linearly
\* and the weight at min_rating is twice the weight at max_rating; with any
\* other preference every weight is 1.
C27_WeightsFavourByPreference ==
  (call.fn = "get_weights" /\ call.returned /\ call.min_rating < call.max_rating) =>
    /\ Len(call.ret) = Len(call.online_bots)
    /\ \A i \in InWindow : call.ret[i] \in Nat /\ call.ret[i] > 0
    /\ call.rating_preference = "high" =>
         /\ LinearInRating
         /\ \A i \in InWindow, j \in InWindow :
              /\ RatingOf(i) < RatingOf(j) => call.ret[i] < call.ret[j]
              /\ (RatingOf(i) = call.min_rating /\ RatingOf(j) = call.max_rating)
                   => call.ret[j] = 2 * call.ret[i]
    /\ call.rating_preference = "low" =>
         /\ LinearInRating
         /\ \A i \in InWindow, j \in InWindow :
              /\ RatingOf(i) < RatingOf(j) => call.ret[i] > call.ret[j]
              /\ (RatingOf(i) = call.min_rating /\ RatingOf(j) = call.max_rating)
                   => call.ret[i] = 2 * call.ret[j]
    /\ call.rating_preference \notin {"high", "low"} =>
         \A i \in 1..Len(call.ret) : call.ret[i] = 1

\* With preference "high", candidates at the bottom, in the middle and at the
\* top of a window wider than two points were weighted, the top twice the
\* bottom.
C27_Witness ==
  /\ call.fn = "get_weights" /\ call.returned
  /\ call.rating_preference = "high"
  /\ call.max_rating > call.min_rating + 2
  /\ Len(call.online_bots) = 3
  /\ RatingOf(1) = call.min_rating
  /\ call.min_rating < RatingOf(2) /\ RatingOf(2) < call.max_rating
  /\ RatingOf(3) = call.max_rating
  /\ call.ret[3] = 2 * call.ret[1]

\* ------------------------------------------------ the queue of bot challenges
\* An incoming bot challenge of speed `first` that can_accept_challenge admits
\* is reserved with reserve_game under a new id and added to the active games;
\* after that no bot challenge of the same lane is admitted.
OnlyTheFirstOfALane(s, active_games) ==
  \A lane \in BothLanes, id \in TrackerIds \ (Keys(s) \cup active_games) :
    \A first \in SpeedsOfLane(lane), later \in SpeedsOfLane(lane) :
      can_accept_challenge(s, first, TRUE, active_games)
        => ~can_accept_challenge(reserve_game(s, id, TRUE, first), later, TRUE, active_games \cup {id})

\* C28: with capacity 3, when incoming challenges are reserved with
\* reserve_game only while can_accept_challenge holds and outgoing ones only
\* directly after can_accept_bot_speed held, at most one bot_short and at most
\* one bot_long reservation exist in every state, and of several queued bot
\* challenges of one lane only the first is admitted: the others are refused
\* once it is reserved.
C28_OneShortAndOneLongBotSlot ==
  slots.max_games = Capacity =>
    /\ AtMostOnePerLane(slots)
    /\ \A active_games \in AllActiveGames : OnlyTheFirstOfALane(slots, active_games)

\* A long bot game is reserved and started; a second long bot challenge is
\* refused while a short one is admitted, and reserving it fills both lanes.
C28_Witness ==
  /\ slots.max_games = Capacity
  /\ _bot_lane_counts(slots) = <<0, 1>>
  /\ \E id \in Started(slots) : slots.slot_by_game_id[id] = "bot_long"
  /\ ~can_accept_challenge(slots, "rapid", TRUE, Started(slots))
  /\ ~can_accept_challenge(slots, "classical", TRUE, Started(slots))
  /\ can_accept_challenge(slots, "bullet", TRUE, Started(slots))
  /\ \E id \in TrackerIds \ Keys(slots) :
       _bot_lane_counts(reserve_game(slots, id, TRUE, "bullet")) = <<1, 1>>

\* ------------------------------------------------- the re-check before sending
\* The speed of a challenge sent to the Game Service, and the speed of the
\* terms opponent selection picks on the current state.
SentSpeed(sent) ==
  game_category("standard", sent.params.clock_limit, sent.params.clock_increment, sent.params.days)
ChosenSpeed(q, e) ==
  LET speed_of(o) == game_category("standard", o[2], o[3], o[4])
  IN speed_of(choose_opponent(Self, q.allowed_bot_lanes, q.correspondence_only, e).opponent)

\* create_matchmaking_challenge on the current state with lanes that may have
\* been computed before the tracker got its last reservation: what it sends
\* is a speed the tracker accepts now, and when the chosen speed is rejected
\* now, nothing is sent, the tracker and the outstanding id stay as they are
\* and the call returns false.
RecheckedAtSendTime(active_games, q, e, r) ==
  LET checked(made, sent, accepted) ==
        /\ \A i \in 1..Len(sent) : can_accept_bot_speed(slots, SentSpeed(sent[i]), active_games)
        /\ ~accepted =>
             /\ sent = <<>>
             /\ made.m.slots = slots
             /\ made.m.challenge_id = challenge_id
             /\ ~made.ret
      sending(made) ==
        checked(made, made.m.calls.challenge, can_accept_bot_speed(slots, ChosenSpeed(q, e), active_games))
  IN sending(create_matchmaking_challenge(Self, active_games, q.allowed_bot_lanes, q.correspondence_only, e, r))

\* The active games at send time: those the host passes, and a set that uses
\* up the capacity; the Game Service answers with an id or without one.
SendTimeActiveGames == ActiveGames \cup {Ids \cup {Untracked}}
SendResponses == {r \in Responses({NewId}) : r.kind \in {"id", "no_id"}}

\* C29: create_matchmaking_challenge never sends a challenge whose speed the
\* tracker rejects at send time: when the lane of the chosen speed was
\* reserved, or the capacity used up, after the offered lanes were computed,
\* can_accept_bot_speed fails, no challenge is sent, no reservation is added
\* and the call returns false.
C29_NothingSentWhenRejectedAtSendTime ==
  \A active_games \in SendTimeActiveGames, q \in Requests, e \in OpponentFound, r \in SendResponses :
    RecheckedAtSendTime(active_games, q, e, r)

\* Both lanes were free before the host reserved a started short bot game; a
\* call still offered both lanes picks a short speed, the tracker rejects it
\* and nothing is sent.
C29_Witness ==
  \E id \in Started(slots), e \in OpponentFound :
    LET q == [allowed_bot_lanes |-> BothLanes, correspondence_only |-> FALSE]
        r == [kind |-> "id", id |-> NewId, timeout |-> 0]
        active_games == Started(slots)
        made == create_matchmaking_challenge(Self, active_games, BothLanes, FALSE, e, r)
    IN /\ slots.slot_by_game_id[id] = "bot_short"
       /\ available_bot_lanes(release(slots, id), active_games \ {id}) = BothLanes
       /\ bot_lane_for_speed(ChosenSpeed(q, e)) = "short"
       /\ ~can_accept_bot_speed(slots, ChosenSpeed(q, e), active_games)
       /\ made.m.calls.challenge = <<>> /\ ~made.ret /\ made.m.slots = slots

\* --------------------------------------------------------- interleaved steps
\* C30: when the acceptance of an incoming bot challenge (can_accept_challenge,
\* then reserve_game) runs concurrently with create_matchmaking_challenge
\* (can_accept_bot_speed, the send, then reserve_outgoing_challenge), each
\* tracker call being atomic, no interleaving reaches a state with two
\* reservations in one bot lane or with used_slots above the capacity.
C30_LaneExclusivityUnderInterleaving ==
  /\ AtMostOnePerLane(slots)
  /\ used_slots(slots, host.active_games) <= slots.max_games

\* ------------------------------------------------------- stale reservations
\* No passage of time changes a timer any more: each has counted as far as
\* anything reads it.
TimeRanOut ==
  \A d \in TimeSteps :
    /\ Elapse(last_challenge_created_delay, d, MaxElapsed) = last_challenge_created_delay
    /\ Elapse(last_game_ended_delay, d, last_game_ended_delay.duration) = last_game_ended_delay
    /\ Elapse(rate_limit_timer, d, rate_limit_timer.duration) = rate_limit_timer

\* m holds what the scheduler holds now.
Settled(m) ==
  /\ m.slots = slots
  /\ m.challenge_id = challenge_id
  /\ m.force_immediate_challenge = force_immediate_challenge
  /\ m.last_challenge_created_delay = last_challenge_created_delay
  /\ m.last_game_ended_delay = last_game_ended_delay
  /\ m.rate_limit_timer = rate_limit_timer
  /\ m.matchmaking_cfg = matchmaking_cfg

\* No call of challenge() with an empty incoming queue changes anything,
\* whatever set of active games the host passes and whatever opponent
\* selection and the Game Service would answer.
PollsChangeNothing ==
  \A active_games \in ActiveGames :
    \A m \in Outcomes(Self, active_games, FALSE, FirstOf(UnusedIds(active_games))) : Settled(m)

\* The pending outgoing challenges that neither time nor challenge() will
\* ever remove: they stay until the opponent answers or a game ends.
StalePending == {id \in Pending(slots) : TimeRanOut /\ PollsChangeNothing}

\* C31: while challenge() keeps being called with an empty incoming queue and
\* time keeps advancing, an outgoing challenge that is never accepted or
\* declined is eventually cancelled and its reservation and pending flag
\* removed, whatever the other lanes, the active games and the correspondence
\* count are.  So no state is reached in which a challenge is pending, every
\* timer has run out and no such call changes anything.
C31_NoStaleReservation == StalePending = {}

\* ------------------------------------------------- during the rate limit
\* C32: no challenge is sent to the Game Service while the rate-limit timer
\* is unexpired: from its arming to its expiry no call of challenge() reaches
\* the Game Service's challenge creation, and the tick that arms the timer
\* sends nothing after the attempt that armed it.
C32_NoChallengeWhileRateLimited ==
  \A t \in Ticks :
    /\ ~is_expired(rate_limit_timer) => t.m.calls.challenge = <<>>
    /\ ~is_expired(t.m.rate_limit_timer) => Len(t.m.calls.challenge) <= 1

\* The rate-limit timer is armed while a replacement of a finished
\* correspondence game is requested and the count is below the target: with
\* the timer expired the next tick would send a challenge.
C32_Witness ==
  /\ ~is_expired(rate_limit_timer)
  /\ force_immediate_challenge
  /\ \E m \in Outcomes([Self EXCEPT !.rate_limit_timer = Timer(0)], {}, FALSE, {NewId}) :
       m.calls.challenge # <<>>
  /\ \A m \in Outcomes(Self, {}, FALSE, {NewId}) : m.calls.challenge = <<>>

\* ------------------------------------------------------- minimum spacing
\* Whether the i-th challenge a tick sent is a background correspondence
\* challenge created while a replacement was requested.
ForcedReplacement(t, i) == force_immediate_challenge /\ i \in CorrespondenceSent(t.m)

\* C33: two consecutive challenge-creation attempts sent to the Game Service
\* are more than min_wait_time apart, unless the later one is a background
\* correspondence challenge created with the force-immediate flag set: every
\* attempt resets the challenge-created timer, the first attempt of a tick is
\* made with more than min_wait_time on that timer or is such a replacement,
\* and a tick makes no second attempt.
C33_MinimumSpacing ==
  \A t \in Ticks :
    /\ t.m.calls.challenge # <<>> => time_since_reset(t.m.last_challenge_created_delay) = 0
    /\ t.m.calls.challenge # <<>> =>
         \/ time_since_reset(last_challenge_created_delay) > min_wait_time
         \/ ForcedReplacement(t, 1)
    /\ Len(t.m.calls.challenge) <= 1

\* A challenge was attempted less than min_wait_time ago and is still
\* outstanding, a correspondence game has finished since: a tick sends the
\* replacement at once and no tick sends a real-time challenge.
C33_Witness ==
  /\ challenge_id # NoId
  /\ time_since_reset(last_challenge_created_delay) < min_wait_time
  /\ force_immediate_challenge
  /\ \E t \in Ticks : ForcedReplacement(t, 1)
  /\ \A t \in Ticks : RealTimeSent(t.m) = {}

\* ------------------------------------------------------- the lanes offered
\* The ids reserved in a bot lane, and the lanes without a reservation.
ReservedIn(lane) == {id \in Keys(slots) : BotLaneOf(slots.slot_by_game_id[id]) = lane}
FreeLanes == {lane \in {"short", "long"} : ReservedIn(lane) = {}}

\* C34 as stated: with capacity 3, available_bot_lanes(active) is the set of
\* lanes without a reservation when used_slots(active) is below the capacity
\* (empty only when both lanes are occupied), and empty when it is not.
C34_OffersTheFreeLanes ==
  slots.max_games = Capacity =>
    \A active_games \in TrackerActiveSets :
      available_bot_lanes(slots, active_games) =
        IF used_slots(slots, active_games) < Capacity THEN FreeLanes ELSE {}

\* C34, with the case of two reservations in one lane: with capacity 3,
\* available_bot_lanes(active) is empty when used_slots(active) has reached
\* the capacity or the two bot lanes hold two or more reservations between
\* them, and the set of lanes without a reservation otherwise.
C34_OffersTheFreeLanesBelowTwo ==
  slots.max_games = Capacity =>
    \A active_games \in TrackerActiveSets :
      available_bot_lanes(slots, active_games) =
        IF used_slots(slots, active_games) >= Capacity THEN {}
        ELSE IF Cardinality(ReservedIn("short") \cup ReservedIn("long")) >= 2 THEN {}
        ELSE FreeLanes

\* Two started reservations in the short lane and none in the long one: with
\* no other game the long lane is free and a slot is left, and no lane is
\* offered.
C34_Witness ==
  /\ slots.max_games = Capacity
  /\ Cardinality(ReservedIn("short")) = 2
  /\ ReservedIn("long") = {}
  /\ used_slots(slots, {}) < Capacity
  /\ available_bot_lanes(slots, {}) = {}
  /\ \E id \in ReservedIn("short") :
       available_bot_lanes(release(slots, id), {}) = {"long"}

\* ------------------------------------------------- correspondence moves
\* With one reservation in each bot lane a correspondence move may not start,
\* whatever slot is left, and may start after the release of either of the
\* two whenever a slot is left.
BlockedByBothLanes ==
  (slots.enabled /\ Cardinality(ReservedIn("short")) = 1 /\ Cardinality(ReservedIn("long")) = 1) =>
    \A active_games \in TrackerActiveSets :
      /\ ~can_start_correspondence_move(slots, active_games)
      /\ \A id \in ReservedIn("short") \cup ReservedIn("long") :
           used_slots(release(slots, id), active_games) < slots.max_games
             => can_start_correspondence_move(release(slots, id), active_games)

\* C35 as stated: can_start_correspondence_move(active) is true if and only
\* if used_slots(active) is below the capacity and, with accounting enabled,
\* a bot lane has no reservation; with both lanes reserved it is false though
\* a slot is free, and true once one of the two is released.
C35_MoveIffSlotAndFreeLane ==
  /\ \A active_games \in TrackerActiveSets :
       can_start_correspondence_move(slots, active_games) <=>
         /\ used_slots(slots, active_games) < slots.max_games
         /\ slots.enabled => FreeLanes # {}
  /\ BlockedByBothLanes

\* C35, with the case of two reservations in one lane:
\* can_start_correspondence_move(active) is true if and only if
\* used_slots(active) is below the capacity and, with accounting enabled, the
\* two bot lanes hold fewer than two reservations between them; with one
\* reservation in each lane it is false though a slot is free, and true once
\* one of the two is released.
C35_MoveIffSlotAndFewerThanTwoBotReservations ==
  /\ \A active_games \in TrackerActiveSets :
       can_start_correspondence_move(slots, active_games) <=>
         /\ used_slots(slots, active_games) < slots.max_games
         /\ slots.enabled => Cardinality(ReservedIn("short") \cup ReservedIn("long")) < 2
  /\ BlockedByBothLanes

\* A short and a long bot game are reserved and active: a third slot is free
\* and no correspondence move may start; after the long game is released and
\* has left the active games a move may start.
C35_Witness ==
  /\ slots.enabled
  /\ \E short_game \in ReservedIn("short"), long_game \in ReservedIn("long") :
       /\ Keys(slots) = {short_game, long_game}
       /\ used_slots(slots, {short_game, long_game}) < slots.max_games
       /\ ~can_start_correspondence_move(slots, {short_game, long_game})
       /\ can_start_correspondence_move(release(slots, long_game), {short_game})

\* ------------------------------------------- background replenishment
\* Whether a call asked create_matchmaking_challenge for a correspondence
\* challenge.
AskedForCorrespondence(made) ==
  \E i \in 1..Len(made.create_matchmaking_challenge) :
    made.create_matchmaking_challenge[i].correspondence_only

\* C36: a call of challenge() sends a correspondence challenge only with slot
\* accounting enabled and the correspondence reservation count below
\* max_background_correspondence_games, and leaves the count at or below the
\* target; with accounting enabled can_accept_bot_speed("correspondence") is
\* true for every active set, also one that fills all slots; and a creation
\* that is not correspondence-only, as the real-time path makes it, sends no
\* correspondence challenge.
C36_ReplenishmentOnlyBelowTarget ==
  /\ \A t \in Ticks :
       CorrespondenceSent(t.m) # {} =>
         /\ slots.enabled
         /\ ~AtTarget
         /\ correspondence_reservation_count(t.m.slots) <= max_background_correspondence_games
         /\ AskedForCorrespondence(t.m.calls)
  /\ slots.enabled =>
       \A active_games \in AllActiveGames :
         can_accept_bot_speed(slots, CORRESPONDENCE_SPEED, active_games)
  /\ \A c \in Creations :
       ~AskedForCorrespondence(c.made.m.calls) => CorrespondenceSent(c.made.m) = {}

\* Three games are in progress, two of them bot games holding the two lanes,
\* the correspondence count is below the target: a tick sends a
\* correspondence challenge and reserves it, and no tick sends a real-time
\* one.
C36_Witness ==
  /\ slots.enabled
  /\ ~AtTarget
  /\ _bot_lane_counts(slots) = <<1, 1>>
  /\ Started(slots) = Ids
  /\ \E t \in Ticks :
       /\ t.active_games = Ids \cup {Untracked}
       /\ used_slots(slots, t.active_games) >= slots.max_games
       /\ CorrespondenceSent(t.m) # {}
       /\ NewId \in t.m.slots.pending_outgoing_correspondence
       /\ correspondence_reservation_count(t.m.slots) = max_background_correspondence_games
  /\ \A t \in Ticks : RealTimeSent(t.m) = {}

\* ------------------------------------------------- the one-shot request
\* The eligibility checks of a call that ignored the minimum spacing.
ChecksIgnoringMinWait(m) ==
  {i \in 1..Len(m.calls.should_create_challenge) :
     m.calls.should_create_challenge[i].ignore_min_wait}

\* Without the force-immediate request no tick ignores the minimum spacing,
\* and no tick sets the request.
NoRequestNoIgnoring ==
  ~force_immediate_challenge =>
    \A t \in Ticks :
      /\ ChecksIgnoringMinWait(t.m) = {}
      /\ ~t.m.force_immediate_challenge

\* C37 as stated: the force-immediate flag is one-shot: after the first call
\* of challenge() that follows correspondence_game_done the flag is false,
\* whether or not a challenge was created, and a later call, with the flag
\* false, checks eligibility with ignore_min_wait false.
C37_FlagClearedByNextTick ==
  /\ force_immediate_challenge => \A t \in Ticks : ~t.m.force_immediate_challenge
  /\ NoRequestNoIgnoring

\* C37, for the ticks that attempt replenishment: with the flag set, a call
\* of challenge() with an empty incoming queue, slot accounting enabled and
\* the correspondence count below the target clears the flag, whether or not
\* a challenge is created, and ignores the minimum spacing in one check only;
\* any other call leaves the flag set and ignores the spacing in no check;
\* with the flag false every check is made with ignore_min_wait false.
C37_FlagClearedByReplenishmentAttempt ==
  /\ force_immediate_challenge =>
       \A t \in Ticks :
         IF ~t.challenge_queue /\ slots.enabled /\ ~AtTarget
         THEN /\ ~t.m.force_immediate_challenge
              /\ ChecksIgnoringMinWait(t.m) = {1}
         ELSE /\ t.m.force_immediate_challenge
              /\ ChecksIgnoringMinWait(t.m) = {}
  /\ NoRequestNoIgnoring

\* The request is set while matchmaking may not challenge (a rate limit runs
\* or matchmaking is off): a tick attempts replenishment, creates nothing and
\* clears the flag.
C37_Witness ==
  /\ force_immediate_challenge
  /\ slots.enabled
  /\ ~AtTarget
  /\ \E t \in Ticks :
       /\ ~t.challenge_queue
       /\ ChecksIgnoringMinWait(t.m) = {1}
       /\ ~t.m.calls.should_create_challenge[1].ret
       /\ t.m.calls.challenge = <<>>
       /\ ~t.m.force_immediate_challenge

\* --------------------------------------------------- the slot for a human
\* The reservations that hold a bot lane.
BotLaneEntries == ReservedIn("short") \cup ReservedIn("long")

====
